---- MODULE Spec2Model ----
(***************************************************************************)
(* A model of the MongoDB extended JSON codec of package mongoextjson.     *)
(*                                                                         *)
(* Byte buffers are sequences of one-character strings.  Go integers wider *)
(* than TLC's own are kept as a sign and a sequence of decimal digits, so  *)
(* that the 2^53, 2^63 and 2^32 limits of the code keep their true values. *)
(***************************************************************************)
EXTENDS Integers, Sequences, FiniteSets, TLC

VARIABLES jsonExt, funcExt, jsonExtendedExt, value, text, result, reencoded, now, calls

registries == <<jsonExt, funcExt, jsonExtendedExt>>

vars == <<jsonExt, funcExt, jsonExtendedExt, value, text, result, reencoded, now, calls>>

(***************************************************************************)
(* Characters                                                              *)
(***************************************************************************)
DigitChars == <<"0", "1", "2", "3", "4", "5", "6", "7", "8", "9">>

HexChars == <<"0", "1", "2", "3", "4", "5", "6", "7", "8", "9",
              "a", "b", "c", "d", "e", "f">>

LowerChars == <<"a", "b", "c", "d", "e", "f", "g", "h", "i", "j", "k", "l", "m",
                "n", "o", "p", "q", "r", "s", "t", "u", "v", "w", "x", "y", "z">>

UpperChars == <<"A", "B", "C", "D", "E", "F", "G", "H", "I", "J", "K", "L", "M",
                "N", "O", "P", "Q", "R", "S", "T", "U", "V", "W", "X", "Y", "Z">>

Range(s) == {s[i] : i \in DOMAIN s}

\* F(x), with x evaluated once, whatever the number of its uses in F.
Then(x, F(_)) == CHOOSE y \in {F(r) : r \in {x}} : TRUE

IndexOf(s, c) == CHOOSE i \in DOMAIN s : s[i] = c

IsDigit(c) == c \in Range(DigitChars)

IsLetter(c) == c \in Range(LowerChars) \cup Range(UpperChars)

ToLower(c) == IF c \in Range(UpperChars) THEN LowerChars[IndexOf(UpperChars, c)] ELSE c

FoldEq(a, b) ==
    /\ Len(a) = Len(b)
    /\ \A i \in DOMAIN a : ToLower(a[i]) = ToLower(b[i])

Quote == "\""

Backslash == "\\"

(***************************************************************************)
(* Integers of any width: a sign and the decimal digits of the magnitude,  *)
(* most significant first, without leading zeros (zero is <<0>>).          *)
(***************************************************************************)
RECURSIVE StripZeros(_)
StripZeros(d) == IF Len(d) > 1 /\ d[1] = 0 THEN StripZeros(Tail(d)) ELSE d

MkInt(neg, digits) ==
    LET m == StripZeros(digits)
    IN  [neg |-> neg /\ m # <<0>>, mag |-> m]

Zero == MkInt(FALSE, <<0>>)

RECURSIVE NatDigits(_)
NatDigits(n) == IF n < 10 THEN <<n>> ELSE Append(NatDigits(n \div 10), n % 10)

FromNat(n) == MkInt(FALSE, NatDigits(n))

RECURSIVE DigitsNat(_)
DigitsNat(d) == IF d = <<>> THEN 0 ELSE 10 * DigitsNat(SubSeq(d, 1, Len(d) - 1)) + d[Len(d)]

\* Only used on values already known to lie in 0..255.
ToNat(n) == DigitsNat(n.mag)

RECURSIVE MagLess(_, _)
MagLess(a, b) ==
    IF Len(a) # Len(b) THEN Len(a) < Len(b)
    ELSE IF a = <<>> THEN FALSE
    ELSE IF a[1] # b[1] THEN a[1] < b[1]
    ELSE MagLess(Tail(a), Tail(b))

IntLess(a, b) ==
    IF a.neg /\ ~b.neg THEN TRUE
    ELSE IF ~a.neg /\ b.neg THEN FALSE
    ELSE IF a.neg THEN MagLess(b.mag, a.mag)
    ELSE MagLess(a.mag, b.mag)

IntLeq(a, b) == a = b \/ IntLess(a, b)

\* a - b on magnitudes, for a >= b.
RECURSIVE MagSubRev(_, _, _)
MagSubRev(a, b, borrow) ==
    IF a = <<>> THEN <<>>
    ELSE LET x == a[Len(a)]
             y == (IF b = <<>> THEN 0 ELSE b[Len(b)]) + borrow
             d == IF x >= y THEN x - y ELSE x + 10 - y
             nb == IF x >= y THEN 0 ELSE 1
         IN  Append(MagSubRev(SubSeq(a, 1, Len(a) - 1),
                              IF b = <<>> THEN <<>> ELSE SubSeq(b, 1, Len(b) - 1), nb), d)

MagSub(a, b) == StripZeros(MagSubRev(a, b, 0))

MaxInt64 == MkInt(FALSE, <<9, 2, 2, 3, 3, 7, 2, 0, 3, 6, 8, 5, 4, 7, 7, 5, 8, 0, 7>>)
MinInt64 == MkInt(TRUE, <<9, 2, 2, 3, 3, 7, 2, 0, 3, 6, 8, 5, 4, 7, 7, 5, 8, 0, 8>>)
MaxInt32 == MkInt(FALSE, <<2, 1, 4, 7, 4, 8, 3, 6, 4, 7>>)
MinInt32 == MkInt(TRUE, <<2, 1, 4, 7, 4, 8, 3, 6, 4, 8>>)
MaxUint32 == MkInt(FALSE, <<4, 2, 9, 4, 9, 6, 7, 2, 9, 5>>)
TwoPow32 == <<4, 2, 9, 4, 9, 6, 7, 2, 9, 6>>

FitsInt(n, bits) ==
    IF bits = 32 THEN IntLeq(MinInt32, n) /\ IntLeq(n, MaxInt32)
    ELSE IntLeq(MinInt64, n) /\ IntLeq(n, MaxInt64)

\* Go's conversion uint32(x) of an int32 x.
Uint32OfInt32(n) == IF n.neg THEN MkInt(FALSE, MagSub(TwoPow32, n.mag)) ELSE n

FromInt(n) == IF n < 0 THEN MkInt(TRUE, NatDigits(0 - n)) ELSE FromNat(n)

\* a + b on magnitudes.
RECURSIVE MagAddRev(_, _, _)
MagAddRev(a, b, carry) ==
    IF a = <<>> /\ b = <<>> THEN (IF carry = 0 THEN <<>> ELSE <<carry>>)
    ELSE LET x == IF a = <<>> THEN 0 ELSE a[Len(a)]
             y == IF b = <<>> THEN 0 ELSE b[Len(b)]
             t == x + y + carry
         IN  Append(MagAddRev(IF a = <<>> THEN <<>> ELSE SubSeq(a, 1, Len(a) - 1),
                              IF b = <<>> THEN <<>> ELSE SubSeq(b, 1, Len(b) - 1),
                              t \div 10), t % 10)

IntAdd(a, b) ==
    IF a.neg = b.neg THEN MkInt(a.neg, MagAddRev(a.mag, b.mag, 0))
    ELSE IF MagLess(a.mag, b.mag) THEN MkInt(b.neg, MagSub(b.mag, a.mag))
    ELSE MkInt(a.neg, MagSub(a.mag, b.mag))

\* a * k on a magnitude, for a small k >= 0.
RECURSIVE MagMulRev(_, _, _)
MagMulRev(a, k, carry) ==
    IF a = <<>> THEN (IF carry = 0 THEN <<>> ELSE NatDigits(carry))
    ELSE LET t == a[Len(a)] * k + carry
         IN  Append(MagMulRev(SubSeq(a, 1, Len(a) - 1), k, t \div 10), t % 10)

IntMul(a, k) == MkInt(a.neg, MagMulRev(a.mag, k, 0))

\* Go's n / 1000, which truncates toward zero.
Quo1000(n) ==
    IF Len(n.mag) <= 3 THEN Zero ELSE MkInt(n.neg, SubSeq(n.mag, 1, Len(n.mag) - 3))

\* Go's n % 1000, which has the sign of n: here as a native integer.
Rem1000(n) ==
    LET r == DigitsNat(SubSeq(n.mag, IF Len(n.mag) <= 3 THEN 1 ELSE Len(n.mag) - 2, Len(n.mag)))
    IN  IF n.neg THEN 0 - r ELSE r

(***************************************************************************)
(* fmt verbs and strconv                                                   *)
(***************************************************************************)
\* %d
FormatD(n) ==
    (IF n.neg THEN <<"-">> ELSE <<>>) \o [i \in DOMAIN n.mag |-> DigitChars[n.mag[i] + 1]]

RECURSIVE HexDigits(_)
HexDigits(n) ==
    IF n < 16 THEN <<HexChars[n + 1]>> ELSE Append(HexDigits(n \div 16), HexChars[(n % 16) + 1])

\* %x of a byte
FormatX(b) == HexDigits(b)

AllDigits(s) == s # <<>> /\ \A i \in DOMAIN s : IsDigit(s[i])

DigitsOf(s) == [i \in DOMAIN s |-> IndexOf(DigitChars, s[i]) - 1]

\* strconv.ParseInt(s, 10, bits): an optional sign, then decimal digits.
ParseInt10(s, bits) ==
    LET signed == s # <<>> /\ s[1] \in {"-", "+"}
        body == IF signed THEN Tail(s) ELSE s
        n == MkInt(signed /\ s[1] = "-", DigitsOf(body))
    IN  IF ~AllDigits(body) THEN [ok |-> FALSE, n |-> Zero]
        ELSE IF ~FitsInt(n, bits) THEN [ok |-> FALSE, n |-> Zero]
        ELSE [ok |-> TRUE, n |-> n]

HexVal(c) == IF ToLower(c) \in Range(HexChars) THEN IndexOf(HexChars, ToLower(c)) - 1 ELSE 16

RECURSIVE BaseNat(_, _)
BaseNat(s, base) ==
    IF s = <<>> THEN 0 ELSE base * BaseNat(SubSeq(s, 1, Len(s) - 1), base) + HexVal(s[Len(s)])

\* strconv.ParseInt(s, 0, 64): the base is implied by the prefix (0x, 0b, 0o
\* or 0, else decimal).  Decimal literals of any length are parsed exactly;
\* prefixed literals are evaluated natively, which is exact for up to six
\* digits.
ParseInt0(s) ==
    LET signed == s # <<>> /\ s[1] \in {"-", "+"}
        neg == signed /\ s[1] = "-"
        body == IF signed THEN Tail(s) ELSE s
        pre == IF Len(body) >= 2 /\ body[1] = "0" THEN ToLower(body[2]) ELSE ""
        base == IF pre = "x" THEN 16 ELSE IF pre = "b" THEN 2
                ELSE IF pre = "o" \/ (Len(body) >= 2 /\ body[1] = "0") THEN 8 ELSE 10
        digs == IF pre \in {"x", "b", "o"} THEN SubSeq(body, 3, Len(body))
                ELSE IF base = 8 THEN Tail(body) ELSE body
    IN  IF base = 10 THEN ParseInt10(s, 64)
        ELSE IF digs = <<>> \/ Len(digs) > 6 \/ \E i \in DOMAIN digs : HexVal(digs[i]) >= base
             THEN [ok |-> FALSE, n |-> Zero]
        ELSE [ok |-> TRUE, n |-> MkInt(neg, NatDigits(BaseNat(digs, base)))]

(***************************************************************************)
(* encoding/base64 (StdEncoding) and encoding/hex                          *)
(***************************************************************************)
B64Chars == UpperChars \o LowerChars \o DigitChars \o <<"+", "/">>

RECURSIVE B64Encode(_)
B64Encode(b) ==
    IF b = <<>> THEN <<>>
    ELSE IF Len(b) = 1 THEN
        <<B64Chars[(b[1] \div 4) + 1], B64Chars[((b[1] % 4) * 16) + 1], "=", "=">>
    ELSE IF Len(b) = 2 THEN
        <<B64Chars[(b[1] \div 4) + 1],
          B64Chars[((b[1] % 4) * 16 + (b[2] \div 16)) + 1],
          B64Chars[((b[2] % 16) * 4) + 1], "=">>
    ELSE
        <<B64Chars[(b[1] \div 4) + 1],
          B64Chars[((b[1] % 4) * 16 + (b[2] \div 16)) + 1],
          B64Chars[((b[2] % 16) * 4 + (b[3] \div 64)) + 1],
          B64Chars[(b[3] % 64) + 1]>> \o B64Encode(SubSeq(b, 4, Len(b)))

IsB64(c) == c \in Range(B64Chars)

B64Val(c) == IndexOf(B64Chars, c) - 1

RECURSIVE B64Decode(_)
B64Decode(s) ==
    IF s = <<>> THEN [ok |-> TRUE, b |-> <<>>]
    ELSE IF Len(s) < 4 \/ ~IsB64(s[1]) \/ ~IsB64(s[2]) THEN [ok |-> FALSE, b |-> <<>>]
    ELSE LET v1 == B64Val(s[1])
             v2 == B64Val(s[2])
             b1 == v1 * 4 + (v2 \div 16)
         IN  IF s[3] = "=" THEN
                 IF s[4] = "=" /\ Len(s) = 4 THEN [ok |-> TRUE, b |-> <<b1>>]
                 ELSE [ok |-> FALSE, b |-> <<>>]
             ELSE IF ~IsB64(s[3]) THEN [ok |-> FALSE, b |-> <<>>]
             ELSE LET v3 == B64Val(s[3])
                      b2 == (v2 % 16) * 16 + (v3 \div 4)
                  IN  IF s[4] = "=" THEN
                          IF Len(s) = 4 THEN [ok |-> TRUE, b |-> <<b1, b2>>]
                          ELSE [ok |-> FALSE, b |-> <<>>]
                      ELSE IF ~IsB64(s[4]) THEN [ok |-> FALSE, b |-> <<>>]
                      ELSE LET b3 == (v3 % 4) * 64 + B64Val(s[4])
                           IN  Then(B64Decode(SubSeq(s, 5, Len(s))),
                                    LAMBDA r : [ok |-> r.ok, b |-> <<b1, b2, b3>> \o r.b])

\* hex.EncodeToString: two lower-case digits per byte.
RECURSIVE HexEncode(_)
HexEncode(b) ==
    IF b = <<>> THEN <<>>
    ELSE <<HexChars[(b[1] \div 16) + 1], HexChars[(b[1] % 16) + 1]>> \o HexEncode(Tail(b))

RECURSIVE HexDecode(_)
HexDecode(s) ==
    IF s = <<>> THEN [ok |-> TRUE, b |-> <<>>]
    ELSE IF Len(s) < 2 \/ HexVal(s[1]) > 15 \/ HexVal(s[2]) > 15 THEN [ok |-> FALSE, b |-> <<>>]
    ELSE Then(HexDecode(SubSeq(s, 3, Len(s))),
              LAMBDA r : [ok |-> r.ok, b |-> <<HexVal(s[1]) * 16 + HexVal(s[2])>> \o r.b])

(***************************************************************************)
(* The names the package registers, as byte strings                        *)
(***************************************************************************)
K_binaryFunc == <<"$", "b", "i", "n", "a", "r", "y", "F", "u", "n", "c">>
K_type == <<"$", "t", "y", "p", "e">>
K_binary == <<"$", "b", "i", "n", "a", "r", "y">>
K_dateFunc == <<"$", "d", "a", "t", "e", "F", "u", "n", "c">>
K_S == <<"S">>
K_date == <<"$", "d", "a", "t", "e">>
K_timestamp == <<"$", "t", "i", "m", "e", "s", "t", "a", "m", "p">>
K_t == <<"t">>
K_i == <<"i">>
K_oidFunc == <<"$", "o", "i", "d", "F", "u", "n", "c">>
K_Id == <<"I", "d">>
K_oid == <<"$", "o", "i", "d">>
K_dbrefFunc == <<"$", "d", "b", "r", "e", "f", "F", "u", "n", "c">>
K_ref == <<"$", "r", "e", "f">>
K_id == <<"$", "i", "d">>
K_numberLongFunc == <<"$", "n", "u", "m", "b", "e", "r", "L", "o", "n", "g", "F", "u", "n", "c">>
K_N == <<"N">>
K_numberLong == <<"$", "n", "u", "m", "b", "e", "r", "L", "o", "n", "g">>
K_numberIntFunc == <<"$", "n", "u", "m", "b", "e", "r", "I", "n", "t", "F", "u", "n", "c">>
K_numberInt == <<"$", "n", "u", "m", "b", "e", "r", "I", "n", "t">>
K_numberDecimalFunc == <<"$", "n", "u", "m", "b", "e", "r", "D", "e", "c", "i", "m", "a", "l", "F", "u", "n", "c">>
K_numberDecimal == <<"$", "n", "u", "m", "b", "e", "r", "D", "e", "c", "i", "m", "a", "l">>
K_minKey == <<"$", "m", "i", "n", "K", "e", "y">>
K_maxKey == <<"$", "m", "a", "x", "K", "e", "y">>
K_undefined == <<"$", "u", "n", "d", "e", "f", "i", "n", "e", "d">>
K_regex == <<"$", "r", "e", "g", "e", "x">>
K_options == <<"$", "o", "p", "t", "i", "o", "n", "s">>
F_BinData == <<"B", "i", "n", "D", "a", "t", "a">>
F_ISODate == <<"I", "S", "O", "D", "a", "t", "e">>
F_newDate == <<"n", "e", "w", " ", "D", "a", "t", "e">>
F_Timestamp == <<"T", "i", "m", "e", "s", "t", "a", "m", "p">>
F_ObjectId == <<"O", "b", "j", "e", "c", "t", "I", "d">>
F_DBRef == <<"D", "B", "R", "e", "f">>
F_NumberLong == <<"N", "u", "m", "b", "e", "r", "L", "o", "n", "g">>
F_NumberInt == <<"N", "u", "m", "b", "e", "r", "I", "n", "t">>
F_NumberDecimal == <<"N", "u", "m", "b", "e", "r", "D", "e", "c", "i", "m", "a", "l">>
C_undefined == <<"u", "n", "d", "e", "f", "i", "n", "e", "d">>
C_MinKey == <<"M", "i", "n", "K", "e", "y">>
C_MaxKey == <<"M", "a", "x", "K", "e", "y">>
C_true == <<"t", "r", "u", "e">>
C_false == <<"f", "a", "l", "s", "e">>
C_null == <<"n", "u", "l", "l">>
W_new == <<"n", "e", "w">>

(***************************************************************************)
(* Extension: the registry of decode and encode hooks.  Hooks are held by  *)
(* name; CallKeyed and CallEncode below dispatch on the name.              *)
(***************************************************************************)
EmptyExt ==
    [funcs |-> {}, consts |-> {}, keyed |-> {}, encode |-> {},
     unquotedKeys |-> FALSE, trailingCommas |-> FALSE]

DecodeUnquotedKeys(e, accept) == [e EXCEPT !.unquotedKeys = accept]

DecodeTrailingCommas(e, accept) == [e EXCEPT !.trailingCommas = accept]

DecodeFunc(e, name, key, args) ==
    [e EXCEPT !.funcs = {f \in @ : f.name # name}
                          \cup {[name |-> name, key |-> key, args |-> args]}]

DecodeConst(e, name, val) ==
    [e EXCEPT !.consts = {c \in @ : c.name # name} \cup {[name |-> name, val |-> val]}]

DecodeKeyed(e, key, hook) ==
    [e EXCEPT !.keyed = {k \in @ : k.key # key} \cup {[key |-> key, hook |-> hook]}]

EncodeType(e, type, hook) ==
    [e EXCEPT !.encode = {t \in @ : t.type # type} \cup {[type |-> type, hook |-> hook]}]

\* e.Extend(ext): every entry of ext is registered in e; a syntax option
\* that ext switches on is switched on in e.
Extend(e, ext) ==
    [funcs |-> {f \in e.funcs : \A g \in ext.funcs : g.name # f.name} \cup ext.funcs,
     consts |-> {c \in e.consts : \A g \in ext.consts : g.name # c.name} \cup ext.consts,
     keyed |-> {k \in e.keyed : \A g \in ext.keyed : g.key # k.key} \cup ext.keyed,
     encode |-> {t \in e.encode : \A g \in ext.encode : g.type # t.type} \cup ext.encode,
     unquotedKeys |-> e.unquotedKeys \/ ext.unquotedKeys,
     trailingCommas |-> e.trailingCommas \/ ext.trailingCommas]

HasFunc(e, name) == \E f \in e.funcs : f.name = name

FuncOf(e, name) == CHOOSE f \in e.funcs : f.name = name

HasConst(e, name) == \E c \in e.consts : c.name = name

ConstOf(e, name) == (CHOOSE c \in e.consts : c.name = name).val

HasKeyed(e, key) == \E k \in e.keyed : k.key = key

KeyedOf(e, key) == (CHOOSE k \in e.keyed : k.key = key).hook

HasEncoder(e, type) == \E t \in e.encode : t.type = type

EncoderOf(e, type) == (CHOOSE t \in e.encode : t.type = type).hook

Undefined == [t |-> "Undefined"]

MinKey == [t |-> "MinKey"]

MaxKey == [t |-> "MaxKey"]

\* The registrations of init() on funcExt, in source order.
InitFuncExt ==
    LET e1 == DecodeFunc(EmptyExt, F_BinData, K_binaryFunc, <<K_type, K_binary>>)
        e2 == DecodeFunc(e1, F_ISODate, K_dateFunc, <<K_S>>)
        e3 == DecodeFunc(e2, F_newDate, K_dateFunc, <<K_S>>)
        e4 == DecodeFunc(e3, F_Timestamp, K_timestamp, <<K_t, K_i>>)
        e5 == DecodeConst(e4, C_undefined, Undefined)
        e6 == DecodeFunc(e5, F_ObjectId, K_oidFunc, <<K_Id>>)
        e7 == DecodeFunc(e6, F_DBRef, K_dbrefFunc, <<K_ref, K_id>>)
        e8 == DecodeFunc(e7, F_NumberLong, K_numberLongFunc, <<K_N>>)
        e9 == DecodeFunc(e8, F_NumberInt, K_numberIntFunc, <<K_N>>)
        e10 == DecodeFunc(e9, F_NumberDecimal, K_numberDecimalFunc, <<K_N>>)
        e11 == DecodeConst(e10, C_MinKey, MinKey)
    IN  DecodeConst(e11, C_MaxKey, MaxKey)

\* The registrations of init() on jsonExt, in source order, the closing
\* jsonExt.Extend(&funcExt) included.
InitJsonExt ==
    LET e1 == DecodeTrailingCommas(DecodeUnquotedKeys(EmptyExt, TRUE), TRUE)
        e2 == DecodeKeyed(DecodeKeyed(e1, K_binary, "jdecBinary"), K_binaryFunc, "jdecBinary")
        e3 == EncodeType(EncodeType(e2, "bytes", "jencBinarySlice"), "Binary", "jencBinaryType")
        e4 == DecodeKeyed(DecodeKeyed(e3, K_date, "jdecDate"), K_dateFunc, "jdecDate")
        e5 == EncodeType(EncodeType(e4, "Time", "jencDate"), "DateTime", "jencDateTime")
        e6 == EncodeType(DecodeKeyed(e5, K_timestamp, "jdecTimestamp"),
                         "Timestamp", "jencTimestamp")
        e7 == EncodeType(DecodeKeyed(e6, K_regex, "jdecRegEx"), "Regex", "jencRegEx")
        e8 == DecodeKeyed(DecodeKeyed(e7, K_oid, "jdecObjectID"), K_oidFunc, "jdecObjectID")
        e9 == EncodeType(e8, "ObjectID", "jencObjectID")
        e10 == DecodeKeyed(e9, K_dbrefFunc, "jdecDBRef")
        e11 == DecodeKeyed(DecodeKeyed(e10, K_numberLong, "jdecNumberLong"),
                           K_numberLongFunc, "jdecNumberLong")
        e12 == EncodeType(EncodeType(e11, "int64", "jencNumberLong"), "int", "jencInt")
        e13 == DecodeKeyed(DecodeKeyed(e12, K_numberInt, "jdecNumberInt"),
                           K_numberIntFunc, "jdecNumberInt")
        e14 == EncodeType(e13, "int32", "jencNumberInt")
        e15 == DecodeKeyed(DecodeKeyed(e14, K_numberDecimal, "jdecNumberDecimal"),
                           K_numberDecimalFunc, "jdecNumberDecimal")
        e16 == EncodeType(e15, "Decimal128", "jencNumberDecimal")
        e17 == DecodeKeyed(DecodeKeyed(e16, K_minKey, "jdecMinKey"), K_maxKey, "jdecMaxKey")
        e18 == EncodeType(DecodeKeyed(e17, K_undefined, "jdecUndefined"),
                          "Undefined", "jencUndefined")
    IN  Extend(e18, InitFuncExt)

\* The registrations of init() on jsonExtendedExt, in source order.
InitJsonExtendedExt ==
    LET e1 == EncodeType(EncodeType(EmptyExt, "bytes", "jencExtendedBinarySlice"),
                         "Binary", "jencExtendedBinaryType")
        e2 == EncodeType(EncodeType(e1, "Time", "jencExtendedDate"),
                         "DateTime", "jencExtendedDateTime")
        e3 == EncodeType(EncodeType(e2, "Timestamp", "jencExtendedTimestamp"),
                         "Regex", "jencRegEx")
        e4 == EncodeType(EncodeType(e3, "ObjectID", "jencExtendedObjectID"),
                         "int64", "jencExtendedNumberLong")
        e5 == EncodeType(EncodeType(e4, "int", "jencInt"), "int32", "jencExtendedNumberInt")
        e6 == EncodeType(e5, "Decimal128", "jencExtendedNumberDecimal")
    IN  EncodeType(e6, "Undefined", "jencExtendedUndefined")

(***************************************************************************)
(* The decoder's grammar: strict JSON plus unquoted keys, trailing commas, *)
(* constructor calls and named constants, each as the decoder's extension  *)
(* allows.  Numbers are integer literals (no fraction, no exponent).       *)
(* A parse yields a syntax tree; a node of an object or a call keeps the   *)
(* raw bytes it spans, which is what a keyed hook is handed.               *)
(***************************************************************************)
At(txt, i) == IF i \in DOMAIN txt THEN txt[i] ELSE "EOF"

IsSpace(c) == c \in {" ", "\t", "\n", "\r"}

IsNameStart(c) == IsLetter(c) \/ c \in {"$", "_"}

IsNameChar(c) == IsNameStart(c) \/ IsDigit(c)

NoNode == [k |-> "none"]

ParseFail == [ok |-> FALSE, node |-> NoNode, i |-> 0]

ParseOk(node, i) == [ok |-> TRUE, node |-> node, i |-> i]

RECURSIVE SkipSpace(_, _)
SkipSpace(txt, i) == IF IsSpace(At(txt, i)) THEN SkipSpace(txt, i + 1) ELSE i

\* The body of a string literal, from the byte after its opening quote.
RECURSIVE ScanString(_, _, _)
ScanString(txt, i, acc) ==
    LET c == At(txt, i)
        e == At(txt, i + 1)
    IN  IF c = "EOF" \/ c \in {"\n", "\t", "\r"} THEN [ok |-> FALSE, s |-> <<>>, i |-> 0]
        ELSE IF c = Quote THEN [ok |-> TRUE, s |-> acc, i |-> i + 1]
        ELSE IF c = Backslash THEN
            IF e \in {Quote, Backslash, "/"} THEN ScanString(txt, i + 2, Append(acc, e))
            ELSE IF e = "n" THEN ScanString(txt, i + 2, Append(acc, "\n"))
            ELSE IF e = "t" THEN ScanString(txt, i + 2, Append(acc, "\t"))
            ELSE IF e = "r" THEN ScanString(txt, i + 2, Append(acc, "\r"))
            ELSE [ok |-> FALSE, s |-> <<>>, i |-> 0]
        ELSE ScanString(txt, i + 1, Append(acc, c))

RECURSIVE ScanName(_, _)
ScanName(txt, i) == IF IsNameChar(At(txt, i)) THEN ScanName(txt, i + 1) ELSE i

RECURSIVE ScanDigits(_, _)
ScanDigits(txt, i) == IF IsDigit(At(txt, i)) THEN ScanDigits(txt, i + 1) ELSE i

\* An integer literal: -? (0 | [1-9][0-9]*), not followed by a fraction,
\* an exponent or a name character.
ScanNumber(txt, i) ==
    LET j == IF At(txt, i) = "-" THEN i + 1 ELSE i
        k == IF At(txt, j) = "0" THEN j + 1 ELSE ScanDigits(txt, j)
    IN  IF k = j \/ IsNameChar(At(txt, k)) \/ At(txt, k) = "."
        THEN [ok |-> FALSE, lit |-> <<>>, i |-> 0]
        ELSE [ok |-> TRUE, lit |-> SubSeq(txt, i, k - 1), i |-> k]

StrNode(s) == [k |-> "str", s |-> s]

NumNode(lit) == [k |-> "num", lit |-> lit]

BoolNode(b) == [k |-> "bool", b |-> b]

NullNode == [k |-> "null"]

ConstNode(val) == [k |-> "const", val |-> val]

ObjNode(keys, quoted, vals, raw) ==
    [k |-> "obj", keys |-> keys, quoted |-> quoted, vals |-> vals, raw |-> raw, fn |-> FALSE]

\* A constructor call Name(a1, ..., an) registered as (key, args) reads as
\* the object {key: {args[1]: a1, ..., args[n]: an}}.
FuncNode(f, argv, raw) ==
    [k |-> "obj", keys |-> <<f.key>>, quoted |-> <<TRUE>>,
     vals |-> <<ObjNode(SubSeq(f.args, 1, Len(argv)), [j \in DOMAIN argv |-> TRUE], argv, raw)>>,
     raw |-> raw, fn |-> TRUE, name |-> f.name]

RECURSIVE ParseValue(_, _, _)
RECURSIVE ParseMembers(_, _, _, _, _, _, _)
RECURSIVE ParseArgs(_, _, _, _, _, _)

\* From where a key or the closing brace is expected; start is the position
\* of the opening brace.
ParseMembers(ext, txt, start, i0, keys, quoted, vals) ==
    LET i == SkipSpace(txt, i0)
        c == At(txt, i)
        AfterValue(key, v) ==
            LET m == SkipSpace(txt, v.i)
            IN  IF ~v.ok THEN ParseFail
                ELSE IF At(txt, m) = "," THEN
                    ParseMembers(ext, txt, start, m + 1, Append(keys, key),
                                 Append(quoted, c = Quote), Append(vals, v.node))
                ELSE IF At(txt, m) = "}" THEN
                    ParseOk(ObjNode(Append(keys, key), Append(quoted, c = Quote),
                                    Append(vals, v.node), SubSeq(txt, start, m)), m + 1)
                ELSE ParseFail
        AfterKey(q) ==
            LET j == SkipSpace(txt, q.i)
            IN  IF ~q.ok \/ At(txt, j) # ":" THEN ParseFail
                ELSE Then(ParseValue(ext, txt, j + 1), LAMBDA v : AfterValue(q.s, v))
    IN  IF c = "}" THEN
            IF keys # <<>> /\ ~ext.trailingCommas THEN ParseFail
            ELSE ParseOk(ObjNode(keys, quoted, vals, SubSeq(txt, start, i)), i + 1)
        ELSE IF c = Quote THEN Then(ScanString(txt, i + 1, <<>>), AfterKey)
        ELSE IF IsNameStart(c) /\ ext.unquotedKeys THEN
            Then(ScanName(txt, i),
                 LAMBDA e : AfterKey([ok |-> TRUE, s |-> SubSeq(txt, i, e - 1), i |-> e]))
        ELSE ParseFail

\* From where an argument or the closing parenthesis is expected; start is
\* the position of the first byte of the constructor's name.
ParseArgs(ext, txt, start, i0, f, argv) ==
    LET i == SkipSpace(txt, i0)
        AfterValue(v) ==
            LET m == SkipSpace(txt, v.i)
            IN  IF ~v.ok \/ Len(argv) >= Len(f.args) THEN ParseFail
                ELSE IF At(txt, m) = "," THEN
                    ParseArgs(ext, txt, start, m + 1, f, Append(argv, v.node))
                ELSE IF At(txt, m) = ")" THEN
                    ParseOk(FuncNode(f, Append(argv, v.node), SubSeq(txt, start, m)), m + 1)
                ELSE ParseFail
    IN  IF At(txt, i) = ")" THEN
            IF argv # <<>> THEN ParseFail
            ELSE ParseOk(FuncNode(f, argv, SubSeq(txt, start, i)), i + 1)
        ELSE Then(ParseValue(ext, txt, i), AfterValue)

\* A name: a constructor call if a parenthesis follows, else a constant.
ParseName(ext, txt, i, e) ==
    LET name == SubSeq(txt, i, e - 1)
        j == SkipSpace(txt, e)
    IN  IF At(txt, j) = "(" THEN
            IF HasFunc(ext, name)
            THEN ParseArgs(ext, txt, i, j + 1, FuncOf(ext, name), <<>>)
            ELSE ParseFail
        ELSE IF name = C_true THEN ParseOk(BoolNode(TRUE), e)
        ELSE IF name = C_false THEN ParseOk(BoolNode(FALSE), e)
        ELSE IF name = C_null THEN ParseOk(NullNode, e)
        ELSE IF HasConst(ext, name) THEN ParseOk(ConstNode(ConstOf(ext, name)), e)
        ELSE ParseFail

ParseValue(ext, txt, i0) ==
    LET i == SkipSpace(txt, i0)
        c == At(txt, i)
    IN  IF c = "{" THEN ParseMembers(ext, txt, i, i + 1, <<>>, <<>>, <<>>)
        ELSE IF c = Quote THEN
            Then(ScanString(txt, i + 1, <<>>),
                 LAMBDA q : IF q.ok THEN ParseOk(StrNode(q.s), q.i) ELSE ParseFail)
        ELSE IF c = "-" \/ IsDigit(c) THEN
            Then(ScanNumber(txt, i),
                 LAMBDA n : IF n.ok THEN ParseOk(NumNode(n.lit), n.i) ELSE ParseFail)
        ELSE IF IsNameStart(c) THEN
            Then(ScanName(txt, i),
                 LAMBDA e1 :
                     IF SubSeq(txt, i, e1 - 1) = W_new /\ At(txt, e1) = " "
                            /\ IsNameStart(At(txt, e1 + 1))
                     THEN Then(ScanName(txt, e1 + 1), LAMBDA e : ParseName(ext, txt, i, e))
                     ELSE ParseName(ext, txt, i, e1))
        ELSE ParseFail

(***************************************************************************)
(* Go values.  Every kind has field names of its own.                      *)
(***************************************************************************)
I64(n) == [t |-> "int64", i64 |-> n]

I32(n) == [t |-> "int32", i32 |-> n]

GoInt(n) == [t |-> "int", int |-> n]

F64(n) == [t |-> "float64", f64 |-> n]

GoString(s) == [t |-> "string", str |-> s]

GoBool(b) == [t |-> "bool", bool |-> b]

GoNil == [t |-> "nil"]

\* A []byte: nil, or a (possibly empty) byte sequence.
NilSlice == [nil |-> TRUE, b |-> <<>>]

Slice(b) == [nil |-> FALSE, b |-> b]

GoBytes(sl) == [t |-> "bytes", bytes |-> sl]

Binary(subtype, data) == [t |-> "Binary", Subtype |-> subtype, Data |-> data]

Timestamp(T, I) == [t |-> "Timestamp", T |-> T, I |-> I]

Regex(pattern, options) == [t |-> "Regex", Pattern |-> pattern, Options |-> options]

ObjectID(b) == [t |-> "ObjectID", oid |-> b]

\* A map[string]interface{}: a function from its keys to their values.
\* A time.Time: the instant as seconds and nanoseconds since the Unix epoch,
\* and the offset of its location from UTC in seconds.
Time(sec, nsec, off) == [t |-> "Time", sec |-> sec, nsec |-> nsec, off |-> off]

GoMap(m) == [t |-> "map", m |-> m]

Err(why) == [t |-> "error", err |-> why]

IsErr(v) == v.t = "error"

(***************************************************************************)
(* Binding a syntax tree to a struct, as Decode does for a typed target.   *)
(* A type is an integer kind (with or without the ",string" option), a     *)
(* string, a []byte, a bool or a struct of tagged fields.  The first       *)
(* mismatch is reported once the whole input has been stored.              *)
(***************************************************************************)
TInt(bits, quoted) == [k |-> "int", bits |-> bits, quoted |-> quoted]

TString == [k |-> "string"]

TBytes == [k |-> "bytes"]

TBool == [k |-> "bool"]

TStruct(fields) == [k |-> "struct", fields |-> fields]

\* map[string]interface{}
TMapAny == [k |-> "mapany"]

Field(go, json, ty) == [go |-> go, json |-> json, ty |-> ty]

FieldNamed(fields, go) == CHOOSE i \in DOMAIN fields : fields[i].go = go

RECURSIVE ZeroOf(_)
ZeroOf(ty) ==
    IF ty.k = "int" THEN Zero
    ELSE IF ty.k = "string" THEN <<>>
    ELSE IF ty.k = "bytes" THEN NilSlice
    ELSE IF ty.k = "bool" THEN FALSE
    ELSE IF ty.k = "mapany" THEN GoMap(<<>>)
    ELSE [g \in {ty.fields[i].go : i \in DOMAIN ty.fields} |->
              ZeroOf(ty.fields[FieldNamed(ty.fields, g)].ty)]

\* The field a key selects: an exact match of the JSON name, else the first
\* match ignoring case, else 0.
FindField(fields, key) ==
    IF \E i \in DOMAIN fields : fields[i].json = key
    THEN CHOOSE i \in DOMAIN fields : fields[i].json = key
    ELSE IF \E i \in DOMAIN fields : FoldEq(fields[i].json, key)
    THEN CHOOSE i \in DOMAIN fields :
             /\ FoldEq(fields[i].json, key)
             /\ \A j \in 1..(i - 1) : ~FoldEq(fields[j].json, key)
    ELSE 0

Bound(err, v) == [err |-> err, v |-> v]

BindInt(node, ty, cur) ==
    IF node.k = "null" THEN Bound(FALSE, cur)
    ELSE IF ty.quoted THEN
        IF node.k # "str" \/ node.s = <<>> THEN Bound(TRUE, cur)
        ELSE IF node.s = C_null THEN Bound(FALSE, cur)
        ELSE IF node.s[1] # "-" /\ ~IsDigit(node.s[1]) THEN Bound(TRUE, cur)
        ELSE LET r == ParseInt10(node.s, ty.bits)
             IN  IF r.ok THEN Bound(FALSE, r.n) ELSE Bound(TRUE, cur)
    ELSE IF node.k # "num" THEN Bound(TRUE, cur)
    ELSE LET r == ParseInt10(node.lit, ty.bits)
         IN  IF r.ok THEN Bound(FALSE, r.n) ELSE Bound(TRUE, cur)

BindBytes(node, cur) ==
    IF node.k = "null" THEN Bound(FALSE, NilSlice)
    ELSE IF node.k # "str" THEN Bound(TRUE, cur)
    ELSE LET r == B64Decode(node.s)
         IN  IF r.ok THEN Bound(FALSE, Slice(r.b)) ELSE Bound(TRUE, cur)

RECURSIVE ToInterface(_, _)
RECURSIVE Bind(_, _, _)
RECURSIVE BindMembers(_, _, _, _, _)

BindMembers(node, ty, idx, cur, err) ==
    IF idx > Len(node.keys) THEN Bound(err, cur)
    ELSE LET f == FindField(ty.fields, node.keys[idx])
         IN  IF f = 0 THEN BindMembers(node, ty, idx + 1, cur, err)
             ELSE LET g == ty.fields[f].go
                  IN  Then(Bind(node.vals[idx], ty.fields[f].ty, cur[g]),
                           LAMBDA r : BindMembers(node, ty, idx + 1,
                                                  [cur EXCEPT ![g] = r.v], err \/ r.err))

Bind(node, ty, cur) ==
    IF ty.k = "int" THEN BindInt(node, ty, cur)
    ELSE IF ty.k = "bytes" THEN BindBytes(node, cur)
    ELSE IF ty.k = "string" THEN
        IF node.k = "null" THEN Bound(FALSE, cur)
        ELSE IF node.k = "str" THEN Bound(FALSE, node.s) ELSE Bound(TRUE, cur)
    ELSE IF ty.k = "bool" THEN
        IF node.k = "null" THEN Bound(FALSE, cur)
        ELSE IF node.k = "bool" THEN Bound(FALSE, node.b) ELSE Bound(TRUE, cur)
    ELSE IF node.k = "null" THEN Bound(FALSE, cur)
    ELSE IF ty.k = "mapany" THEN
        IF node.k # "obj" THEN Bound(TRUE, cur)
        ELSE Then(ToInterface(Extend(EmptyExt, funcExt), node),
                  LAMBDA m : IF IsErr(m) THEN Bound(TRUE, cur) ELSE Bound(FALSE, m))
    ELSE IF node.k = "obj" THEN BindMembers(node, ty, 1, cur, FALSE)
    ELSE Bound(TRUE, cur)

\* NewDecoder followed by d.Extend(ext).
NewDecoder(ext) == Extend(EmptyExt, ext)

\* jdec(data, &v) for a zero v of type ty: err, and v as the call leaves it.
jdec(data, ty) ==
    Then(ParseValue(NewDecoder(funcExt), data, 1),
         LAMBDA p : IF p.ok THEN Bind(p.node, ty, ZeroOf(ty)) ELSE Bound(TRUE, ZeroOf(ty)))

(***************************************************************************)
(* The keyed decode hooks                                                  *)
(***************************************************************************)
K_ID == <<"I", "D">>

\* The struct v of jdecBinary.
BinaryStruct ==
    TStruct(<<Field("Binary", K_binary, TBytes),
              Field("Type", K_type, TString),
              Field("Func", K_binaryFunc,
                    TStruct(<<Field("Binary", K_binary, TBytes),
                              Field("Type", K_type, TInt(64, FALSE))>>))>>)

jdecBinary(data) ==
    LET Decoded(r) ==
            LET v == r.v
                p == ParseInt0(v.Type)
                fromFunc == v.Type = <<>> /\ v.Binary.nil
                binData == IF fromFunc THEN v.Func.Binary ELSE v.Binary
                binKind == IF fromFunc THEN v.Func.Type
                           ELSE IF p.ok THEN p.n ELSE MkInt(TRUE, <<1>>)
            IN  IF r.err THEN Err("jdec")
                ELSE IF ~fromFunc /\ v.Type = <<>> THEN GoBytes(v.Binary)
                ELSE IF binKind = Zero THEN GoBytes(binData)
                ELSE IF IntLess(binKind, Zero) \/ IntLess(FromNat(255), binKind)
                     THEN Err("invalid type in binary object")
                ELSE Binary(ToNat(binKind), binData)
    IN  Then(jdec(data, BinaryStruct), Decoded)

\* The struct v of jdecTimestamp.
TimestampStruct ==
    TStruct(<<Field("Func", K_timestamp,
                    TStruct(<<Field("T", K_t, TInt(32, FALSE)),
                              Field("I", K_i, TInt(32, FALSE))>>))>>)

jdecTimestamp(data) ==
    Then(jdec(data, TimestampStruct),
         LAMBDA r : IF r.err THEN Err("jdec")
                    ELSE Timestamp(Uint32OfInt32(r.v.Func.T), Uint32OfInt32(r.v.Func.I)))

\* The struct v of jdecRegEx.
RegExStruct ==
    TStruct(<<Field("Regex", K_regex, TString), Field("Options", K_options, TString)>>)

jdecRegEx(data) ==
    Then(jdec(data, RegExStruct),
         LAMBDA r : IF r.err THEN Err("jdec") ELSE Regex(r.v.Regex, r.v.Options))

\* primitive.ObjectIDFromHex: 24 hex digits make the 12 bytes of an id.
ObjectIDFromHex(s) ==
    IF Len(s) # 24 THEN Err("invalid hex")
    ELSE Then(HexDecode(s), LAMBDA r : IF r.ok THEN ObjectID(r.b) ELSE Err("invalid hex"))

\* time.Unix(sec, nsec).UTC(), for -1e9 < nsec < 1e9.
TimeUnix(sec, nsec) ==
    IF nsec < 0 THEN Time(IntAdd(sec, FromInt(0 - 1)), nsec + 1000000000, 0)
    ELSE Time(sec, nsec, 0)

\* n milliseconds with the scale of nanoseconds left out.
UnixMilliUnscaled(n) == TimeUnix(Quo1000(n), Rem1000(n))

\* time.Unix(n/1000, n%1000*1e6).UTC()
UnixMilli(n) == TimeUnix(Quo1000(n), Rem1000(n) * 1000000)

IsLeap(y) == y % 4 = 0 /\ (y % 100 # 0 \/ y % 400 = 0)

DaysIn(m, y) ==
    IF m = 2 THEN (IF IsLeap(y) THEN 29 ELSE 28)
    ELSE IF m \in {4, 6, 9, 11} THEN 30 ELSE 31

\* The days from 1970-01-01 to y-m-d in the proleptic Gregorian calendar.
DaysFromCivil(y, m, d) ==
    LET yy == IF m <= 2 THEN y - 1 ELSE y
        era == yy \div 400
        yoe == yy - era * 400
        doy == (153 * (IF m > 2 THEN m - 3 ELSE m + 9) + 2) \div 5 + d - 1
        doe == yoe * 365 + yoe \div 4 - yoe \div 100 + doy
    IN  era * 146097 + doe - 719468

\* The number written by the n digits of s from i, or -1.
Num(s, i, n) ==
    IF i + n - 1 <= Len(s) /\ \A j \in i..(i + n - 1) : IsDigit(s[j])
    THEN DigitsNat([j \in 1..n |-> IndexOf(DigitChars, s[i + j - 1]) - 1])
    ELSE 0 - 1

\* time.Parse(layout, s) for the two layouts of jdecDate: jdateFormat,
\* "2006-01-02T15:04:05.999Z07:00" (withClock), and "2006-01-02".
TimeParse(withClock, s) ==
    LET y == Num(s, 1, 4)
        mo == Num(s, 6, 2)
        d == Num(s, 9, 2)
        dateOk == /\ y >= 0 /\ mo >= 1 /\ mo <= 12 /\ d >= 1
                  /\ At(s, 5) = "-" /\ At(s, 8) = "-"
                  /\ d <= DaysIn(mo, y)
        h == Num(s, 12, 2)
        mi == Num(s, 15, 2)
        sc == Num(s, 18, 2)
        clockOk == /\ At(s, 11) = "T" /\ At(s, 14) = ":" /\ At(s, 17) = ":"
                   /\ h >= 0 /\ h < 24 /\ mi >= 0 /\ mi < 60 /\ sc >= 0 /\ sc < 60
        hasFrac == At(s, 20) \in {".", ","} /\ IsDigit(At(s, 21))
        z == IF hasFrac THEN ScanDigits(s, 21) ELSE 20
        frac == IF hasFrac THEN SubSeq(s, 21, IF z - 21 > 9 THEN 29 ELSE z - 1) ELSE <<>>
        nsec == DigitsNat([j \in 1..9 |-> IF j <= Len(frac)
                                           THEN IndexOf(DigitChars, frac[j]) - 1 ELSE 0])
        zh == Num(s, z + 1, 2)
        zm == Num(s, z + 4, 2)
        utc == At(s, z) = "Z" /\ Len(s) = z
        zoned == /\ At(s, z) \in {"+", "-"} /\ At(s, z + 3) = ":" /\ Len(s) = z + 5
                 /\ zh >= 0 /\ zh < 24 /\ zm >= 0 /\ zm < 60
        off == IF utc THEN 0
               ELSE (IF At(s, z) = "-" THEN 0 - 1 ELSE 1) * (zh * 3600 + zm * 60)
        sod == IF withClock THEN h * 3600 + mi * 60 + sc - off ELSE 0
    IN  IF ~dateOk THEN Err("cannot parse date")
        ELSE IF ~withClock /\ Len(s) # 10 THEN Err("cannot parse date")
        ELSE IF withClock /\ ~(clockOk /\ (utc \/ zoned)) THEN Err("cannot parse date")
        ELSE Time(IntAdd(IntMul(FromInt(DaysFromCivil(y, mo, d)), 86400), FromInt(sod)),
                  IF withClock THEN nsec ELSE 0, IF withClock THEN off ELSE 0)

\* The struct v of jdecDate.
DateStruct ==
    TStruct(<<Field("S", K_date, TString),
              Field("Func", K_dateFunc, TStruct(<<Field("S", K_S, TString)>>))>>)

\* The struct vn of jdecDate.
DateNumberStruct ==
    TStruct(<<Field("Date", K_date,
                    TStruct(<<Field("N", K_numberLong, TInt(64, TRUE))>>)),
              Field("Func", K_dateFunc, TStruct(<<Field("S", K_S, TInt(64, FALSE))>>))>>)

\* The error of the first jdec is dropped; v is used as that call left it.
jdecDate(data) ==
    LET Millis(r2) ==
            IF r2.err THEN Err("cannot parse date")
            ELSE UnixMilli(IF r2.v.Date.N = Zero THEN r2.v.Func.S ELSE r2.v.Date.N)
        Parsed(S) ==
            Then(TimeParse(TRUE, S),
                 LAMBDA t1 : IF ~IsErr(t1) THEN t1
                             ELSE Then(TimeParse(FALSE, S),
                                       LAMBDA t2 : IF ~IsErr(t2) THEN t2
                                                   ELSE Err("cannot parse date")))
    IN  Then(jdec(data, DateStruct),
             LAMBDA r1 :
                 IF r1.v.S # <<>> THEN Parsed(r1.v.S)
                 ELSE IF r1.v.Func.S # <<>> THEN Parsed(r1.v.Func.S)
                 ELSE Then(jdec(data, DateNumberStruct), Millis))

\* The struct v of jdecObjectID.
ObjectIDStruct ==
    TStruct(<<Field("ID", K_oid, TString),
              Field("Func", K_oidFunc, TStruct(<<Field("ID", K_ID, TString)>>))>>)

\* jdecObjectID reading the $oid member only, never the constructor's Id.
jdecObjectIDKeyedOnly(data) ==
    Then(jdec(data, ObjectIDStruct),
         LAMBDA r : IF r.err THEN Err("jdec") ELSE ObjectIDFromHex(r.v.ID))

jdecObjectID(data) ==
    Then(jdec(data, ObjectIDStruct),
         LAMBDA r : IF r.err THEN Err("jdec")
                    ELSE ObjectIDFromHex(IF r.v.ID = <<>> THEN r.v.Func.ID ELSE r.v.ID))

\* The structs v (numbers quoted) and vn (numbers bare) of jdecNumberLong
\* and jdecNumberInt.
NumberStruct(key, funcKey, bits, quoted) ==
    TStruct(<<Field("N", key, TInt(bits, quoted)),
              Field("Func", funcKey, TStruct(<<Field("N", K_N, TInt(bits, quoted))>>))>>)

\* The number a number hook returns from v once v.N and v.Func.N are set.
NumberOfStruct(v) == IF v.N # Zero THEN v.N ELSE v.Func.N

\* jdecNumberLong without the second attempt, which reads the number bare.
jdecNumberLongQuotedOnly(data) ==
    Then(jdec(data, NumberStruct(K_numberLong, K_numberLongFunc, 64, TRUE)),
         LAMBDA r1 : IF r1.err THEN Err("jdec") ELSE I64(NumberOfStruct(r1.v)))

jdecNumberLong(data) ==
    Then(jdec(data, NumberStruct(K_numberLong, K_numberLongFunc, 64, TRUE)),
         LAMBDA r1 :
             IF ~r1.err THEN I64(NumberOfStruct(r1.v))
             ELSE Then(jdec(data, NumberStruct(K_numberLong, K_numberLongFunc, 64, FALSE)),
                       LAMBDA r2 : IF r2.err THEN Err("jdec") ELSE I64(NumberOfStruct(r2.v))))

jdecNumberInt(data) ==
    Then(jdec(data, NumberStruct(K_numberInt, K_numberIntFunc, 32, TRUE)),
         LAMBDA r1 :
             IF ~r1.err THEN I32(NumberOfStruct(r1.v))
             ELSE Then(jdec(data, NumberStruct(K_numberInt, K_numberIntFunc, 32, FALSE)),
                       LAMBDA r2 : IF r2.err THEN Err("jdec") ELSE I32(NumberOfStruct(r2.v))))

\* $minKey with any number but zero taken for the sentinel.
jdecMinKeyAnyNonZero(data) ==
    Then(jdec(data, TStruct(<<Field("N", K_minKey, TInt(64, FALSE))>>)),
         LAMBDA r : IF r.err THEN Err("jdec")
                    ELSE IF r.v.N = Zero THEN Err("invalid $minKey object")
                    ELSE MinKey)

jdecMinKey(data) ==
    Then(jdec(data, TStruct(<<Field("N", K_minKey, TInt(64, FALSE))>>)),
         LAMBDA r : IF r.err THEN Err("jdec")
                    ELSE IF r.v.N # FromNat(1) THEN Err("invalid $minKey object")
                    ELSE MinKey)

jdecMaxKey(data) ==
    Then(jdec(data, TStruct(<<Field("N", K_maxKey, TInt(64, FALSE))>>)),
         LAMBDA r : IF r.err THEN Err("jdec")
                    ELSE IF r.v.N # FromNat(1) THEN Err("invalid $maxKey object")
                    ELSE MaxKey)

jdecUndefined(data) ==
    Then(jdec(data, TStruct(<<Field("B", K_undefined, TBool)>>)),
         LAMBDA r : IF r.err THEN Err("jdec")
                    ELSE IF ~r.v.B THEN Err("invalid $undefined object")
                    ELSE Undefined)

\* The struct v of jdecDBRef; v.Obj is made an empty map before the decode.
DBRefStruct == TStruct(<<Field("Obj", K_dbrefFunc, TMapAny)>>)

jdecDBRef(data) ==
    Then(jdec(data, DBRefStruct), LAMBDA r : IF r.err THEN Err("jdec") ELSE r.v.Obj)

\* The call of a registered keyed hook.
CallKeyed(hook, data) ==
    CASE hook = "jdecBinary" -> jdecBinary(data)
      [] hook = "jdecTimestamp" -> jdecTimestamp(data)
      [] hook = "jdecRegEx" -> jdecRegEx(data)
      [] hook = "jdecDate" -> jdecDate(data)
      [] hook = "jdecObjectID" -> jdecObjectID(data)
      [] hook = "jdecDBRef" -> jdecDBRef(data)
      [] hook = "jdecNumberLong" -> jdecNumberLong(data)
      [] hook = "jdecNumberInt" -> jdecNumberInt(data)
      [] hook = "jdecMinKey" -> jdecMinKey(data)
      [] hook = "jdecMaxKey" -> jdecMaxKey(data)
      [] hook = "jdecUndefined" -> jdecUndefined(data)
      [] OTHER -> Err("hook outside the model")

(***************************************************************************)
(* Decoding into an interface{} target                                     *)
(***************************************************************************)
\* The key the decoder looks up among the keyed hooks: the first key of an
\* object, or the key registered for a constructor's name.
DispatchKey(ext, node) ==
    IF node.fn \/ node.quoted[1] THEN node.keys[1]
    ELSE IF HasFunc(ext, node.keys[1]) THEN FuncOf(ext, node.keys[1]).key
    ELSE node.keys[1]

\* The map of an object's members: a key written twice keeps its last value;
\* the error of a member is the error of the whole.
MapOf(keys, vals) ==
    LET last(key) == CHOOSE i \in DOMAIN keys :
                         keys[i] = key /\ \A j \in DOMAIN keys : keys[j] = key => j <= i
    IN  IF \E i \in DOMAIN vals : IsErr(vals[i])
        THEN vals[CHOOSE i \in DOMAIN vals : IsErr(vals[i])]
        ELSE GoMap([key \in Range(keys) |-> vals[last(key)]])

\* The decoder never treats a call without arguments apart.
NoArgNewDateNever(node) == FALSE

\* The call new Date() without arguments, which the decoder answers itself.
IsNoArgNewDate(node) ==
    /\ node.k = "obj"
    /\ node.fn
    /\ node.name = F_newDate
    /\ node.vals[1].keys = <<>>

\* time.Now().UTC(), the clock counting milliseconds since the epoch.
TimeNow == Time(FromNat(now \div 1000), (now % 1000) * 1000000, 0)

RECURSIVE AllToInterface(_, _, _)

AllToInterface(ext, nodes, acc) ==
    IF Len(acc) = Len(nodes) THEN acc
    ELSE Then(ToInterface(ext, nodes[Len(acc) + 1]),
              LAMBDA v : AllToInterface(ext, nodes, Append(acc, v)))

ToInterface(ext, node) ==
    IF node.k = "str" THEN GoString(node.s)
    ELSE IF node.k = "num" THEN
        LET r == ParseInt10(node.lit, 64)
        IN  IF r.ok THEN F64(r.n) ELSE Err("number outside the model")
    ELSE IF node.k = "bool" THEN GoBool(node.b)
    ELSE IF node.k = "null" THEN GoNil
    ELSE IF node.k = "const" THEN node.val
    ELSE IF IsNoArgNewDate(node) THEN TimeNow
    ELSE IF node.keys # <<>> /\ ext.keyed # {} /\ HasKeyed(ext, DispatchKey(ext, node))
         THEN CallKeyed(KeyedOf(ext, DispatchKey(ext, node)), node.raw)
    ELSE Then(AllToInterface(ext, node.vals, <<>>), LAMBDA vals : MapOf(node.keys, vals))

\* Unmarshal(data, &value) for an interface{} value: the value stored, or
\* the error returned.
Unmarshal(data) ==
    Then(ParseValue(NewDecoder(jsonExt), data, 1),
         LAMBDA p : IF p.ok THEN ToInterface(NewDecoder(jsonExt), p.node) ELSE Err("syntax"))

\* The keyed hook a decoder with extension ext hands the whole of a text
\* to, with the bytes it hands over; hook "none" when the text goes to no
\* hook.
HookFor(ext, txt) ==
    Then(ParseValue(ext, txt, 1),
         LAMBDA p :
             IF p.ok /\ p.node.k = "obj" /\ ~IsNoArgNewDate(p.node) /\ p.node.keys # <<>>
                    /\ HasKeyed(ext, DispatchKey(ext, p.node))
             THEN [hook |-> KeyedOf(ext, DispatchKey(ext, p.node)), data |-> p.node.raw]
             ELSE [hook |-> "none", data |-> <<>>])

(***************************************************************************)
(* The encode hooks.  fbytes(format, args...) is written out as the        *)
(* concatenation the format string describes: %s and %v copy a string      *)
(* byte for byte, %d and %x print a number.                                *)
(***************************************************************************)
Quoted(s) == <<Quote>> \o s \o <<Quote>>

TwoPow53 == MkInt(FALSE, <<9, 0, 0, 7, 1, 9, 9, 2, 5, 4, 7, 4, 0, 9, 9, 2>>)

TwoPow21 == MkInt(FALSE, <<2, 0, 9, 7, 1, 5, 2>>)

\* jencBinarySlice writing the legacy form, without $type.
jencBinarySliceLegacy(v) ==
    <<"{">> \o Quoted(K_binary) \o <<":">> \o Quoted(B64Encode(v.bytes.b)) \o <<"}">>

jencBinarySlice(v) ==
    <<"{">> \o Quoted(K_binary) \o <<":">> \o Quoted(B64Encode(v.bytes.b)) \o <<",">>
        \o Quoted(K_type) \o <<":">> \o Quoted(<<"0", "x", "0">>) \o <<"}">>

jencBinaryType(v) ==
    <<"{">> \o Quoted(K_binary) \o <<":">> \o Quoted(B64Encode(v.Data.b)) \o <<",">>
        \o Quoted(K_type) \o <<":">> \o Quoted(<<"0", "x">> \o FormatX(v.Subtype)) \o <<"}">>

jencExtendedBinarySlice(v) ==
    F_BinData \o <<"(", "0", ",">> \o Quoted(B64Encode(v.bytes.b)) \o <<")">>

jencExtendedBinaryType(v) ==
    F_BinData \o <<"(">> \o FormatX(v.Subtype) \o <<",">>
        \o Quoted(B64Encode(v.Data.b)) \o <<")">>

jencTimestamp(v) ==
    <<"{">> \o Quoted(K_timestamp) \o <<":", "{">> \o Quoted(K_t) \o <<":">> \o FormatD(v.T)
        \o <<",">> \o Quoted(K_i) \o <<":">> \o FormatD(v.I) \o <<"}", "}">>

jencExtendedTimestamp(v) ==
    F_Timestamp \o <<"(">> \o FormatD(v.T) \o <<",">> \o FormatD(v.I) \o <<")">>

jencRegEx(v) ==
    <<"{">> \o Quoted(K_regex) \o <<":">> \o Quoted(v.Pattern) \o <<",">>
        \o Quoted(K_options) \o <<":">> \o Quoted(v.Options) \o <<"}">>

jencObjectID(v) == <<"{">> \o Quoted(K_oid) \o <<":">> \o Quoted(HexEncode(v.oid)) \o <<"}">>

jencExtendedObjectID(v) == F_ObjectId \o <<"(">> \o Quoted(HexEncode(v.oid)) \o <<")">>

\* jencNumberLong with the threshold itself on the quoted side.
jencNumberLongBelow(v) ==
    IF IntLess(v.i64, TwoPow53)
    THEN <<"{">> \o Quoted(K_numberLong) \o <<":">> \o FormatD(v.i64) \o <<"}">>
    ELSE <<"{">> \o Quoted(K_numberLong) \o <<":">> \o Quoted(FormatD(v.i64)) \o <<"}">>

jencNumberLong(v) ==
    IF IntLeq(v.i64, TwoPow53)
    THEN <<"{">> \o Quoted(K_numberLong) \o <<":">> \o FormatD(v.i64) \o <<"}">>
    ELSE <<"{">> \o Quoted(K_numberLong) \o <<":">> \o Quoted(FormatD(v.i64)) \o <<"}">>

jencExtendedNumberLong(v) == F_NumberLong \o <<"(">> \o FormatD(v.i64) \o <<")">>

jencNumberInt(v) ==
    IF IntLeq(v.i32, TwoPow21)
    THEN <<"{">> \o Quoted(K_numberInt) \o <<":">> \o FormatD(v.i32) \o <<"}">>
    ELSE <<"{">> \o Quoted(K_numberInt) \o <<":">> \o Quoted(FormatD(v.i32)) \o <<"}">>

jencExtendedNumberInt(v) == FormatD(v.i32)

\* jencInt following the rule of jencNumberLong.
jencIntAsNumberLong(v) == jencNumberLong(I64(v.int))

jencInt(v) ==
    IF IntLeq(v.int, TwoPow53)
    THEN FormatD(v.int)
    ELSE <<"{">> \o Quoted(K_numberLong) \o <<":">> \o Quoted(FormatD(v.int)) \o <<"}">>

jencUndefined(v) == <<"{">> \o Quoted(K_undefined) \o <<":">> \o C_true \o <<"}">>

jencExtendedUndefined(v) == C_undefined

\* The call of a registered encode hook.
CallEncode(hook, v) ==
    CASE hook = "jencBinarySlice" -> jencBinarySlice(v)
      [] hook = "jencBinaryType" -> jencBinaryType(v)
      [] hook = "jencExtendedBinarySlice" -> jencExtendedBinarySlice(v)
      [] hook = "jencExtendedBinaryType" -> jencExtendedBinaryType(v)
      [] hook = "jencTimestamp" -> jencTimestamp(v)
      [] hook = "jencExtendedTimestamp" -> jencExtendedTimestamp(v)
      [] hook = "jencRegEx" -> jencRegEx(v)
      [] hook = "jencObjectID" -> jencObjectID(v)
      [] hook = "jencExtendedObjectID" -> jencExtendedObjectID(v)
      [] hook = "jencNumberLong" -> jencNumberLong(v)
      [] hook = "jencExtendedNumberLong" -> jencExtendedNumberLong(v)
      [] hook = "jencNumberInt" -> jencNumberInt(v)
      [] hook = "jencExtendedNumberInt" -> jencExtendedNumberInt(v)
      [] hook = "jencInt" -> jencInt(v)
      [] hook = "jencUndefined" -> jencUndefined(v)
      [] hook = "jencExtendedUndefined" -> jencExtendedUndefined(v)

(***************************************************************************)
(* The type-directed encoder                                               *)
(***************************************************************************)
\* The bytes the model uses, in ASCII order.
Ascii ==
    <<"\t", "\n", "\r", " ", "\"", "$", "(", ")", "+", ",", "-", ".", "/">> \o DigitChars
        \o <<":", "=">> \o UpperChars \o <<"[", "\\", "]", "_">> \o LowerChars \o <<"{", "}">>

Ord(c) == IndexOf(Ascii, c)

RECURSIVE StrLess(_, _)
StrLess(a, b) ==
    IF b = <<>> THEN FALSE
    ELSE IF a = <<>> THEN TRUE
    ELSE IF a[1] # b[1] THEN Ord(a[1]) < Ord(b[1])
    ELSE StrLess(Tail(a), Tail(b))

\* The keys of a map, sorted as strings.
RECURSIVE SortedKeys(_)
SortedKeys(keys) ==
    IF keys = {} THEN <<>>
    ELSE Then(CHOOSE k \in keys : \A o \in keys \ {k} : StrLess(k, o),
              LAMBDA least : <<least>> \o SortedKeys(keys \ {least}))

\* The keys of a map in descending order.
MapKeysDescending(m) ==
    LET ks == SortedKeys(DOMAIN m)
    IN  [i \in DOMAIN ks |-> ks[Len(ks) + 1 - i]]

\* The order in which the encoder writes the members of a map: sorted by key.
MapKeys(m) == SortedKeys(DOMAIN m)

\* A string as a JSON string literal.
RECURSIVE Escaped(_)
Escaped(s) ==
    IF s = <<>> THEN <<>>
    ELSE (IF s[1] \in {Quote, Backslash} THEN <<Backslash, s[1]>>
          ELSE IF s[1] = "\n" THEN <<Backslash, "n">>
          ELSE IF s[1] = "\r" THEN <<Backslash, "r">>
          ELSE IF s[1] = "\t" THEN <<Backslash, "t">>
          ELSE <<s[1]>>) \o Escaped(Tail(s))

EncodeString(s) == Quoted(Escaped(s))

RECURSIVE Encode(_, _)
RECURSIVE EncodeMembers(_, _, _)

EncodeMembers(ext, m, keys) ==
    IF keys = <<>> THEN <<>>
    ELSE EncodeString(keys[1]) \o <<":">> \o Encode(ext, m[keys[1]])
             \o (IF Len(keys) > 1 THEN <<",">> ELSE <<>>) \o EncodeMembers(ext, m, Tail(keys))

\* e.Encode(v) for an encoder extended with ext: a registered hook for the
\* value's type, else the generic encoding.
Encode(ext, v) ==
    IF HasEncoder(ext, v.t) THEN CallEncode(EncoderOf(ext, v.t), v)
    ELSE IF v.t = "map" THEN <<"{">> \o EncodeMembers(ext, v.m, MapKeys(v.m)) \o <<"}">>
    ELSE IF v.t = "string" THEN EncodeString(v.str)
    ELSE IF v.t = "float64" THEN FormatD(v.f64)
    ELSE IF v.t = "bool" THEN (IF v.bool THEN C_true ELSE C_false)
    ELSE IF v.t = "nil" THEN C_null
    ELSE <<"{", "}">>

NewEncoder(ext) == Extend(EmptyExt, ext)

Marshal(v) == Encode(NewEncoder(jsonExtendedExt), v)

MarshalCanonical(v) == Encode(NewEncoder(jsonExt), v)

(***************************************************************************)
(* The inputs of a session.  A caller holds one input: a Go value it       *)
(* marshals, a string it writes into object-id literals, or a document it  *)
(* writes as text.                                                         *)
(***************************************************************************)
MaxPayloadLen == 2

MaxPatternLen == 2

MaxKeys == 2

MaxDepth == 2

MaxClock == 3

NumCallers == 2

MaxNesting == 3

\* The integers whose decimal form differs from that of d in the last digit
\* by at most one, with either sign.
Near(d) ==
    {MkInt(neg, SubSeq(d, 1, Len(d) - 1) \o <<x>>) :
        neg \in BOOLEAN, x \in {y \in 0..9 : y - d[Len(d)] \in {-1, 0, 1}}}

Int64Samples ==
    {n \in Near(<<0>>) \cup Near(<<1, 0>>) \cup Near(TwoPow53.mag) \cup Near(MaxInt64.mag) :
        FitsInt(n, 64)}

Int32Samples ==
    {n \in Near(<<0>>) \cup Near(<<2, 6>>) \cup Near(TwoPow21.mag) \cup Near(MaxInt32.mag) :
        FitsInt(n, 32)}

Uint32Samples ==
    {n \in Near(<<0>>) \cup Near(MaxInt32.mag) \cup Near(MaxUint32.mag) :
        ~n.neg /\ IntLeq(n, MaxUint32)}

SeqsUpTo(S, n) == UNION {[1..m -> S] : m \in 0..n}

PayloadBytes == {0, 102, 255}

Payloads == SeqsUpTo(PayloadBytes, MaxPayloadLen)

Subtypes == {0, 1, 2, 9, 10, 15, 16, 128, 255}

PatternChars == {"a", "/", Quote, Backslash}

Patterns == SeqsUpTo(PatternChars, MaxPatternLen)

OptionStrings == {<<>>, <<"i">>, <<Quote>>}

Hex24 ==
    <<"5", "a", "9", "3", "4", "e", "0", "0", "0", "1", "0", "2",
      "0", "3", "0", "4", "0", "5", "0", "0", "0", "0", "0", "0">>

Hex24Upper == [i \in DOMAIN Hex24 |-> IF Hex24[i] = "a" THEN "A" ELSE Hex24[i]]

OidStrings ==
    {Hex24, Hex24Upper, <<>>, <<"x", "y", "z">>,
     SubSeq(Hex24, 1, 23), Hex24 \o <<"0">>, [Hex24 EXCEPT ![24] = "g"],
     [Hex24 EXCEPT ![1] = Quote]}

Doc(keys, vals) == [t |-> "doc", keys |-> keys, vals |-> vals]

DocKeys == {<<"b">>, <<"a">>, <<"_", "i", "d">>}

DocLeaves == {F64(FromNat(1)), GoString(<<"x">>)}

FlatDocs ==
    UNION {{Doc(ks, vs) : ks \in {s \in [1..n -> DocKeys] : \A i, j \in 1..n : s[i] = s[j] => i = j},
                         vs \in [1..n -> DocLeaves]} : n \in 0..MaxKeys}

RECURSIVE DocsOfDepth(_)
DocsOfDepth(d) ==
    IF d <= 1 THEN FlatDocs
    ELSE FlatDocs \cup {Doc(<<k>>, <<inner>>) : k \in DocKeys, inner \in DocsOfDepth(d - 1)}

\* A wrapper object of one member, as a caller writes it.
Wrapper(key, quotedKey, body) ==
    <<"{">> \o (IF quotedKey THEN Quoted(key) ELSE key) \o <<":">> \o body \o <<"}">>

\* Literals a caller writes by hand: a sentinel wrapper with any payload,
\* a binary literal with any subtype text, a date in milliseconds, the call
\* new Date(), and literals given byte for byte.
SentinelLit(key, payload) == [t |-> "sentinelLit", key |-> key, payload |-> payload]

BinaryLit(subtype, data) == [t |-> "binaryLit", subtype |-> subtype, data |-> data]

MillisLit(m) == [t |-> "millisLit", ms |-> m]

NewDateLit == [t |-> "newDateLit"]

RawLit(b) == [t |-> "rawLit", b |-> b]

SentinelKeys == {K_minKey, K_maxKey, K_undefined}

SentinelPayloads ==
    {<<"1">>, <<"0">>, <<"2">>, <<"-", "1">>, <<"1", "0">>, C_true, C_false, C_null,
     Quoted(<<"1">>), Quoted(C_true)}

SubtypeTexts ==
    {<<"0">>, <<"2">>, <<"2", "5", "5">>, <<"2", "5", "6">>, <<"2", "5", "7">>,
     <<"-", "1">>, <<"-", "2", "5", "5">>, <<"4", "2", "9", "4", "9", "6", "7", "2", "9", "8">>,
     <<"0", "x", "2">>, <<"0", "x", "f", "f">>, <<"0", "x", "1", "0", "0">>, <<"0", "x">>,
     <<>>, <<"x">>}

MillisSamples ==
    Near(<<0>>) \cup Near(<<1, 0, 0, 0>>) \cup Near(<<1, 1, 1, 6, 3, 7, 4>>)
        \cup {MaxInt64, MinInt64}

DateA == <<"2", "0", "0", "0", "-", "0", "1", "-", "0", "1">>

DateB ==
    <<"2", "0", "0", "0", "-", "0", "8", "-", "2", "7", "T",
      "2", "3", ":", "1", "2", ":", "2", "3", ".", "0", "0", "4", "Z">>

RawTexts ==
    {Wrapper(K_date, TRUE, Quoted(DateA)),
     Wrapper(K_date, TRUE, Quoted(DateB)),
     Wrapper(K_date, TRUE, Quoted(<<"x">>)),
     Wrapper(K_date, TRUE, <<"5">>),
     Wrapper(K_date, TRUE, Quoted(DateA) \o <<",">> \o Quoted(K_dateFunc) \o <<":", "5">>),
     Wrapper(K_date, TRUE, Wrapper(K_numberLong, TRUE, Quoted(<<"5">>)) \o <<",">>
                               \o Quoted(K_dateFunc) \o <<":">> \o Wrapper(K_S, TRUE, Quoted(DateA))),
     F_ISODate \o <<"(">> \o Quoted(DateA) \o <<")">>,
     F_newDate \o <<"(">> \o Quoted(DateB) \o <<")">>,
     F_Timestamp \o <<"(", "1", ",", "2", ")">>,
     F_NumberInt \o <<"(", "5", ")">>,
     F_NumberLong \o <<"(", "5", ")">>,
     F_DBRef \o <<"(">> \o Quoted(<<"c">>) \o <<",", "5", ")">>,
     F_DBRef \o <<"(">> \o Quoted(<<"c">>) \o <<",">> \o F_NumberLong \o <<"(", "5", ")", ")">>}

Literals ==
    {SentinelLit(k, pl) : k \in SentinelKeys, pl \in SentinelPayloads}
        \cup {BinaryLit(st, b) : st \in SubtypeTexts, b \in {<<>>, <<102>>}}
        \cup {MillisLit(m) : m \in MillisSamples}
        \cup {NewDateLit}
        \cup {RawLit(b) : b \in RawTexts}

Inputs ==
    {I64(n) : n \in Int64Samples}
        \cup {I32(n) : n \in Int32Samples}
        \cup {GoInt(n) : n \in Near(<<1>>) \cup Near(TwoPow53.mag)}
        \cup {GoString(h) : h \in OidStrings}
        \cup {ObjectID(HexDecode(Hex24).b)}
        \cup {Binary(st, Slice(b)) : st \in Subtypes, b \in Payloads}
        \cup {GoBytes(Slice(b)) : b \in Payloads}
        \cup {Timestamp(T, I) : T \in Uint32Samples, I \in Uint32Samples}
        \cup {Regex(pat, opt) : pat \in Patterns, opt \in OptionStrings}
        \cup {Undefined}
        \cup DocsOfDepth(MaxDepth)
        \cup Literals

(***************************************************************************)
(* The literals a caller writes from its input                             *)
(***************************************************************************)
Forms == {"canonical", "extended", "strict", "strictString", "unquotedKeys", "constructor"}

Modes == {"canonical", "extended"}

RECURSIVE RenderDoc(_, _)
RECURSIVE RenderMembers(_, _, _)

RenderMembers(d, quotedKeys, i) ==
    IF i > Len(d.keys) THEN <<>>
    ELSE (IF quotedKeys THEN Quoted(d.keys[i]) ELSE d.keys[i]) \o <<":">>
             \o (IF d.vals[i].t = "doc" THEN RenderDoc(d.vals[i], quotedKeys)
                 ELSE IF d.vals[i].t = "string" THEN EncodeString(d.vals[i].str)
                 ELSE FormatD(d.vals[i].f64))
             \o (IF i < Len(d.keys) THEN <<",">> ELSE <<>>)
             \o RenderMembers(d, quotedKeys, i + 1)

RenderDoc(d, quotedKeys) == <<"{">> \o RenderMembers(d, quotedKeys, 1) \o <<"}">>

WrapperKey(v) == IF v.t = "int64" THEN K_numberLong ELSE K_numberInt

NumberOf(v) == IF v.t = "int64" THEN v.i64 ELSE v.i32

FormApplies(form, v) ==
    IF v.t \in {"int64", "int32"} THEN form \in {"strict", "strictString", "unquotedKeys"}
    ELSE IF v.t = "string" THEN form \in {"strict", "constructor", "unquotedKeys"}
    ELSE IF v.t = "doc" THEN form \in {"strict", "unquotedKeys"}
    ELSE IF v.t \in {"sentinelLit", "rawLit"} THEN form = "strict"
    ELSE IF v.t = "binaryLit" THEN
        form = "strict" \/ (form = "constructor" /\ ScanNumber(v.subtype, 1).ok)
    ELSE IF v.t = "millisLit" THEN form \in {"strict", "constructor"}
    ELSE IF v.t = "newDateLit" THEN form = "constructor"
    ELSE FALSE

Render(form, v) ==
    IF v.t \in {"int64", "int32"} THEN
        Wrapper(WrapperKey(v), form # "unquotedKeys",
                IF form = "strictString" THEN Quoted(FormatD(NumberOf(v)))
                ELSE FormatD(NumberOf(v)))
    ELSE IF v.t = "string" THEN
        IF form = "constructor" THEN F_ObjectId \o <<"(">> \o EncodeString(v.str) \o <<")">>
        ELSE Wrapper(K_oid, form # "unquotedKeys", EncodeString(v.str))
    ELSE IF v.t = "sentinelLit" THEN Wrapper(v.key, TRUE, v.payload)
    ELSE IF v.t = "rawLit" THEN v.b
    ELSE IF v.t = "binaryLit" THEN
        IF form = "constructor"
        THEN F_BinData \o <<"(">> \o v.subtype \o <<",">> \o Quoted(B64Encode(v.data)) \o <<")">>
        ELSE <<"{">> \o Quoted(K_binary) \o <<":">> \o Quoted(B64Encode(v.data)) \o <<",">>
                 \o Quoted(K_type) \o <<":">> \o Quoted(v.subtype) \o <<"}">>
    ELSE IF v.t = "millisLit" THEN
        IF form = "constructor" THEN F_newDate \o <<"(">> \o FormatD(v.ms) \o <<")">>
        ELSE Wrapper(K_date, TRUE, Wrapper(K_numberLong, TRUE, Quoted(FormatD(v.ms))))
    ELSE IF v.t = "newDateLit" THEN F_newDate \o <<"(", ")">>
    ELSE RenderDoc(v, form # "unquotedKeys")

Marshalable(v) ==
    v.t \notin {"doc", "sentinelLit", "binaryLit", "millisLit", "newDateLit", "rawLit"}

(***************************************************************************)
(* The session                                                             *)
(***************************************************************************)
NoText == [has |-> FALSE, b |-> <<>>]

Text(b) == [has |-> TRUE, b |-> b]

NoResult == [t |-> "none"]

\* Concurrent callers of the package: each is idle or inside one call, at
\* one of its steps, with the decoder or encoder the call made for itself.
Callers == 1..NumCallers

Idle ==
    [pc |-> "idle", op |-> "none", data |-> <<>>, val |-> GoNil, ext |-> EmptyExt,
     inner |-> EmptyExt, hook |-> "none", depth |-> 0, res |-> NoResult, buf |-> NoText]

Init ==
    /\ jsonExt = InitJsonExt
    /\ funcExt = InitFuncExt
    /\ jsonExtendedExt = InitJsonExtendedExt
    /\ value \in Inputs
    /\ text = [f \in Forms |-> NoText]
    /\ result = [f \in Forms |-> NoResult]
    /\ reencoded = [f \in Forms |-> [m \in Modes |-> NoText]]
    /\ now = 1
    /\ calls = [c \in Callers |-> Idle]

\* b, err := Marshal(value)
DoMarshal ==
    /\ Marshalable(value)
    /\ ~text["extended"].has
    /\ text' = [text EXCEPT !["extended"] = Text(Marshal(value))]
    /\ UNCHANGED <<registries, value, result, reencoded, now, calls>>

\* b, err := MarshalCanonical(value)
DoMarshalCanonical ==
    /\ Marshalable(value)
    /\ ~text["canonical"].has
    /\ text' = [text EXCEPT !["canonical"] = Text(MarshalCanonical(value))]
    /\ UNCHANGED <<registries, value, result, reencoded, now, calls>>

\* The caller writes its input as a literal of the given form.
Write(form) ==
    /\ FormApplies(form, value)
    /\ ~text[form].has
    /\ text' = [text EXCEPT ![form] = Text(Render(form, value))]
    /\ UNCHANGED <<registries, value, result, reencoded, now, calls>>

\* err := Unmarshal(text[form], &v) for an interface{} v
DoUnmarshal(form) ==
    /\ text[form].has
    /\ result[form] = NoResult
    /\ result' = [result EXCEPT ![form] = Unmarshal(text[form].b)]
    /\ UNCHANGED <<registries, value, text, reencoded, now, calls>>

\* A decoded document is encoded again, in either mode.
Remarshal(form, mode) ==
    /\ result[form].t = "map"
    /\ ~reencoded[form][mode].has
    /\ reencoded' = [reencoded EXCEPT ![form][mode] =
                        Text(IF mode = "canonical" THEN MarshalCanonical(result[form])
                             ELSE Marshal(result[form]))]
    /\ UNCHANGED <<registries, value, text, result, now, calls>>

\* A millisecond passes while a call new Date() waits to be decoded.
Tick ==
    /\ value.t = "newDateLit"
    /\ now < MaxClock
    /\ now' = now + 1
    /\ UNCHANGED <<registries, value, text, result, reencoded, calls>>

Next ==
    \/ DoMarshal
    \/ DoMarshalCanonical
    \/ \E form \in Forms : Write(form)
    \/ \E form \in Forms : DoUnmarshal(form)
    \/ \E form \in Forms, mode \in Modes : Remarshal(form, mode)
    \/ Tick

Spec == Init /\ [][Next]_vars

(***************************************************************************)
(* Concurrent calls.  Callers run Unmarshal, Marshal and MarshalCanonical  *)
(* side by side, each call a step at a time: the decoder or encoder is     *)
(* made, extended with a shared registry, and run; a keyed hook makes the  *)
(* decoder of jdec, extends it and decodes its own body.                   *)
(***************************************************************************)
session == <<value, text, result, reencoded, now>>

ConcTexts ==
    {Wrapper(K_numberLong, TRUE, <<"5">>),
     F_NumberLong \o <<"(", "5", ")">>,
     Wrapper(<<"a">>, TRUE, <<"1">>)}

ConcValues == {I64(FromNat(5)), Undefined}

\* What d.Extend(ext) leaves in *ext, the registry it is handed: the
\* registry as it was, marked with a syntax option in the variant.
ExtendArgFlagged(d, ext) == DecodeUnquotedKeys(ext, TRUE)

ExtendArg(d, ext) == ext

\* d.Extend(ext) on a decoder or an encoder: the receiver and the argument
\* as the call leaves them.
ExtendCall(d, ext) == [d |-> Extend(d, ext), ext |-> ExtendArg(d, ext)]

\* The registry jdec extends its decoder with; the variant takes the
\* registry of Unmarshal.
JdecRegistryOuter == jsonExt

JdecRegistry == funcExt

\* The registry an entry point extends its decoder or encoder with.
RegistryOf(op) == IF op = "Marshal" THEN jsonExtendedExt ELSE jsonExt

ConcInit ==
    /\ jsonExt = InitJsonExt
    /\ funcExt = InitFuncExt
    /\ jsonExtendedExt = InitJsonExtendedExt
    /\ value = Undefined
    /\ text = [f \in Forms |-> NoText]
    /\ result = [f \in Forms |-> NoResult]
    /\ reencoded = [f \in Forms |-> [m \in Modes |-> NoText]]
    /\ now = 1
    /\ calls = [c \in Callers |-> Idle]

\* d := NewDecoder(bytes.NewBuffer(data))
CallUnmarshal(c, data) ==
    /\ calls[c].pc = "idle"
    /\ calls' = [calls EXCEPT ![c] = [Idle EXCEPT !.pc = "new", !.op = "Unmarshal",
                                                  !.data = data]]
    /\ UNCHANGED <<registries, session>>

\* var buf bytes.Buffer; e := NewEncoder(&buf)
CallMarshal(c, op, v) ==
    /\ calls[c].pc = "idle"
    /\ calls' = [calls EXCEPT ![c] = [Idle EXCEPT !.pc = "new", !.op = op, !.val = v]]
    /\ UNCHANGED <<registries, session>>

\* d.Extend(&jsonExt), e.Extend(&jsonExtendedExt), e.Extend(&jsonExt)
ExtendOwn(c) ==
    /\ calls[c].pc = "new"
    /\ LET op == calls[c].op
           r == ExtendCall(calls[c].ext, RegistryOf(op))
       IN  /\ calls' = [calls EXCEPT ![c].ext = r.d,
                                     ![c].pc = IF op = "Unmarshal" THEN "decode" ELSE "encode"]
           /\ jsonExt' = IF op = "Marshal" THEN jsonExt ELSE r.ext
           /\ jsonExtendedExt' = IF op = "Marshal" THEN r.ext ELSE jsonExtendedExt
    /\ UNCHANGED <<funcExt, session>>

\* d.Decode(value): a text that is a keyed object or a constructor call of
\* a registered key goes to its hook; any other is decoded at once.
DecodeOuter(c) ==
    /\ calls[c].pc = "decode"
    /\ LET h == HookFor(calls[c].ext, calls[c].data)
           p == ParseValue(calls[c].ext, calls[c].data, 1)
       IN  calls' = IF h.hook # "none"
                    THEN [calls EXCEPT ![c].pc = "hook", ![c].hook = h.hook]
                    ELSE [calls EXCEPT ![c].pc = "done",
                                       ![c].res = IF p.ok THEN ToInterface(calls[c].ext, p.node)
                                                  ELSE Err("syntax")]
    /\ UNCHANGED <<registries, session>>

\* The hook calls jdec: d := NewDecoder(...); d.Extend(&funcExt)
HookJdec(c) ==
    /\ calls[c].pc = "hook"
    /\ calls[c].depth < MaxNesting
    /\ LET r == ExtendCall(EmptyExt, JdecRegistry)
       IN  /\ calls' = [calls EXCEPT ![c].inner = r.d, ![c].pc = "inner",
                                     ![c].depth = @ + 1]
           /\ funcExt' = IF JdecRegistry = funcExt THEN r.ext ELSE funcExt
           /\ jsonExt' = IF JdecRegistry = funcExt THEN jsonExt ELSE r.ext
    /\ UNCHANGED <<jsonExtendedExt, session>>

\* What the decoder stores for a text it handed to a keyed hook: the value
\* or the error the hook returns.
HookResult(ext, data) ==
    Then(ParseValue(ext, data, 1), LAMBDA p : ToInterface(ext, p.node))

\* d.Decode(&v) inside jdec: a body that the inner decoder hands to a
\* keyed hook of its own enters the hook again; otherwise the hook ends
\* with its value or its error.
DecodeInner(c) ==
    /\ calls[c].pc = "inner"
    /\ LET h == HookFor(calls[c].inner, calls[c].data)
       IN  calls' = IF h.hook # "none"
                    THEN [calls EXCEPT ![c].pc = "hook", ![c].hook = h.hook]
                    ELSE [calls EXCEPT ![c].pc = "done",
                                       ![c].res = HookResult(calls[c].ext, calls[c].data)]
    /\ UNCHANGED <<registries, session>>

\* err := e.Encode(value)
EncodeOwn(c) ==
    /\ calls[c].pc = "encode"
    /\ calls' = [calls EXCEPT ![c].pc = "done",
                              ![c].buf = Text(Encode(calls[c].ext, calls[c].val))]
    /\ UNCHANGED <<registries, session>>

\* The call returns to its caller.
Return(c) ==
    /\ calls[c].pc = "done"
    /\ calls' = [calls EXCEPT ![c] = Idle]
    /\ UNCHANGED <<registries, session>>

\* A step of a call under way.
CallStep(c) ==
    \/ ExtendOwn(c)
    \/ DecodeOuter(c)
    \/ HookJdec(c)
    \/ DecodeInner(c)
    \/ EncodeOwn(c)
    \/ Return(c)

ConcNext ==
    \E c \in Callers :
        \/ \E data \in ConcTexts : CallUnmarshal(c, data)
        \/ \E op \in {"Marshal", "MarshalCanonical"}, v \in ConcValues : CallMarshal(c, op, v)
        \/ CallStep(c)

ConcSpec == ConcInit /\ [][ConcNext]_vars

(***************************************************************************)
(* Properties                                                              *)
(***************************************************************************)
Decoded(form) == result[form] # NoResult

IsNumber(v) == v.t \in {"int64", "int32"}

\* The canonical threshold of a number's type.
Threshold(v) == IF v.t = "int32" THEN TwoPow21 ELSE TwoPow53

\* |n| > 2^53
BeyondDouble(n) == MagLess(TwoPow53.mag, n.mag)

\* C1: a $numberLong or $numberInt wrapper decodes to the integer it holds,
\* of the wrapper's width, whether the number is written bare or as a quoted
\* string, and so does the canonical encoding of the integer, on both sides
\* of the quoting threshold and at zero.
C1_NumberWrappersDecodeExactly ==
    IsNumber(value) =>
        \A form \in {"strict", "strictString", "canonical"} :
            Decoded(form) => result[form] = value

C1_Witness ==
    /\ value.t = "int64"
    /\ IntLess(TwoPow53, value.i64)
    /\ \A form \in {"strict", "strictString", "canonical"} : Decoded(form)

C1_WitnessZero ==
    /\ value = I32(Zero)
    /\ \A form \in {"strict", "strictString", "canonical"} : Decoded(form)

\* C2: MarshalCanonical writes an int64 n as {"$numberLong":n} when
\* n <= 2^53 and as {"$numberLong":"n"} otherwise, and an int32 n as
\* {"$numberInt":n} when n <= 2^21 and as {"$numberInt":"n"} otherwise.
C2_CanonicalQuotingThreshold ==
    (IsNumber(value) /\ text["canonical"].has) =>
        text["canonical"].b =
            IF IntLeq(NumberOf(value), Threshold(value))
            THEN Render("strict", value)
            ELSE Render("strictString", value)

C2_Witness == value = I64(TwoPow53) /\ text["canonical"].has

\* A string of exactly 24 hexadecimal digits.
IsHex24(h) == Len(h) = 24 /\ \A i \in DOMAIN h : HexVal(h[i]) < 16

\* C3: for a string h, ObjectId("h") and {"$oid":"h"} decode alike: to the
\* same object id when h is 24 hexadecimal digits, to an error otherwise.
C3_ConstructorAndKeyedAgree ==
    (value.t = "string" /\ Decoded("constructor") /\ Decoded("strict")) =>
        /\ IsErr(result["constructor"]) <=> ~IsHex24(value.str)
        /\ IsErr(result["strict"]) <=> ~IsHex24(value.str)
        /\ IsHex24(value.str) =>
               /\ result["constructor"] = result["strict"]
               /\ result["strict"].t = "ObjectID"
               /\ HexEncode(result["strict"].oid) = [i \in 1..24 |-> ToLower(value.str[i])]

C3_Witness ==
    /\ value = GoString(Hex24Upper)
    /\ Decoded("constructor")
    /\ Decoded("strict")
    /\ result["constructor"].t = "ObjectID"

C3_WitnessInvalid ==
    /\ value = GoString(SubSeq(Hex24, 1, 23))
    /\ Decoded("constructor")
    /\ Decoded("strict")

\* C4: Marshal writes a binary value of subtype s in 1..255 as
\* BinData(s in decimal, "base64 of the payload"), and Unmarshal of that
\* output yields a binary value of the same subtype and payload.
C4_ExtendedBinaryRoundTrip ==
    (value.t = "Binary" /\ value.Subtype >= 1 /\ text["extended"].has) =>
        /\ text["extended"].b =
               F_BinData \o <<"(">> \o FormatD(FromNat(value.Subtype)) \o <<",">>
                   \o Quoted(B64Encode(value.Data.b)) \o <<")">>
        /\ Decoded("extended") =>
               /\ result["extended"].t = "Binary"
               /\ result["extended"].Subtype = value.Subtype
               /\ result["extended"].Data.b = value.Data.b

\* C5: Unmarshal(MarshalCanonical(v)) of a binary value v of any subtype in
\* 0..255 is a binary value of the same subtype and payload.
C5_CanonicalBinaryRoundTrip ==
    (value.t = "Binary" /\ Decoded("canonical")) =>
        /\ result["canonical"].t = "Binary"
        /\ result["canonical"].Subtype = value.Subtype
        /\ result["canonical"].Data.b = value.Data.b

\* C6: a timestamp whose t and i lie anywhere in 0..2^32-1 survives
\* Unmarshal(Marshal(v)) and Unmarshal(MarshalCanonical(v)) unchanged.
C6_TimestampRoundTrip ==
    value.t = "Timestamp" =>
        \A form \in {"canonical", "extended"} : Decoded(form) => result[form] = value

\* Strict JSON: one value of the grammar without any extension, and nothing
\* but white space after it.
IsStrictJSON(txt) ==
    Then(ParseValue(EmptyExt, txt, 1),
         LAMBDA p : p.ok /\ SkipSpace(txt, p.i) = Len(txt) + 1)

\* C7: whatever MarshalCanonical writes is strict JSON, the encoding of a
\* regex whose pattern or options hold a double quote or a backslash
\* included.
C7_CanonicalIsStrictJSON == text["canonical"].has => IsStrictJSON(text["canonical"].b)

\* The document d with the members of every object in ascending key order.
RECURSIVE InKeyOrder(_)
InKeyOrder(d) ==
    IF d.t # "doc" THEN d
    ELSE LET n == Len(d.keys)
             p == CHOOSE q \in [1..n -> 1..n] :
                      \A i, j \in 1..n : i < j => StrLess(d.keys[q[i]], d.keys[q[j]])
         IN  Doc([i \in 1..n |-> d.keys[p[i]]], [i \in 1..n |-> InKeyOrder(d.vals[p[i]])])

C9_UnquotedKeysDecodeAlike ==
    (Decoded("unquotedKeys") /\ Decoded("strict")) =>
        result["unquotedKeys"] = result["strict"]

\* C10: MarshalCanonical writes every 64-bit integer n with |n| > 2^53, of
\* either sign, with its digits quoted.
C10_BeyondDoubleIsQuoted ==
    (value.t = "int64" /\ BeyondDouble(value.i64) /\ text["canonical"].has) =>
        text["canonical"].b = Render("strictString", value)

\* C11 as stated: a native int is encoded as the int64 of the same value
\* is in canonical mode, and Marshal writes that same canonical form.
C11_IntEncodedAsInt64 ==
    value.t = "int" =>
        /\ text["canonical"].has => text["canonical"].b = MarshalCanonical(I64(value.int))
        /\ text["extended"].has => text["extended"].b = MarshalCanonical(I64(value.int))

\* C11 as amended: in both modes a native int n is written as the bare
\* decimal number n when n <= 2^53, without any wrapper, and as
\* {"$numberLong":"n"} when n > 2^53.
C11_IntEncodedBareUpToThreshold ==
    value.t = "int" =>
        \A mode \in Modes :
            text[mode].has =>
                text[mode].b = IF IntLeq(value.int, TwoPow53) THEN FormatD(value.int)
                               ELSE Wrapper(K_numberLong, TRUE, Quoted(FormatD(value.int)))

C11_Witness ==
    /\ value = GoInt(FromNat(1))
    /\ text["canonical"].has
    /\ text["extended"].has

\* The members of the object a canonical text holds: its keys and the
\* strings they carry.
MembersOf(txt) ==
    Then(ParseValue(EmptyExt, txt, 1),
         LAMBDA p : IF p.ok /\ p.node.k = "obj" THEN [ok |-> TRUE, keys |-> p.node.keys, vals |-> p.node.vals]
                    ELSE [ok |-> FALSE, keys |-> <<>>, vals |-> <<>>])

\* C12 as stated: MarshalCanonical writes a raw byte sequence without a
\* $type member and a binary wrapper with one.
C12_TypeOnlyForWrapper ==
    text["canonical"].has =>
        /\ value.t = "bytes" => K_type \notin Range(MembersOf(text["canonical"].b).keys)
        /\ value.t = "Binary" => K_type \in Range(MembersOf(text["canonical"].b).keys)

\* C12 as amended: MarshalCanonical writes $type for a raw byte sequence
\* too, as "0x0": both a byte sequence and a binary wrapper are written
\* {"$binary":"<base64>","$type":"0x<subtype in hexadecimal>"}.
C12_TypeAlwaysWritten ==
    (value.t \in {"bytes", "Binary"} /\ text["canonical"].has) =>
        LET m == MembersOf(text["canonical"].b)
            payload == IF value.t = "bytes" THEN value.bytes.b ELSE value.Data.b
            subtype == IF value.t = "bytes" THEN 0 ELSE value.Subtype
        IN  /\ m.ok
            /\ m.keys = <<K_binary, K_type>>
            /\ m.vals[1] = StrNode(B64Encode(payload))
            /\ m.vals[2].k = "str"
            /\ SubSeq(m.vals[2].s, 1, 2) = <<"0", "x">>
            /\ ParseInt0(m.vals[2].s) = [ok |-> TRUE, n |-> FromNat(subtype)]

C12_Witness == value = GoBytes(Slice(<<102>>)) /\ text["canonical"].has

\* The one payload a sentinel wrapper may carry, and the sentinel it names.
LegalPayload(key) == IF key = K_undefined THEN C_true ELSE <<"1">>

SentinelOf(key) ==
    IF key = K_minKey THEN MinKey ELSE IF key = K_maxKey THEN MaxKey ELSE Undefined

\* C13: a sentinel wrapper decodes to its sentinel only with its legal
\* payload, {"$minKey":1}, {"$maxKey":1} and {"$undefined":true}; with any
\* other payload Unmarshal returns an error and no sentinel.
C13_SentinelOnlyForLegalPayload ==
    (value.t = "sentinelLit" /\ Decoded("strict")) =>
        IF value.payload = LegalPayload(value.key)
        THEN result["strict"] = SentinelOf(value.key)
        ELSE IsErr(result["strict"])

C13_Witness ==
    /\ value = SentinelLit(K_minKey, <<"2">>)
    /\ Decoded("strict")
    /\ IsErr(result["strict"])

\* A parsed subtype that a binary value can carry: a number of 0..255.
IsByte(p) == p.ok /\ IntLeq(Zero, p.n) /\ IntLeq(p.n, FromNat(255))

\* C14: a binary literal whose subtype is outside 0..255, BinData(s, ...)
\* with s < 0 or s > 255 or a $type string that is no number or is out of
\* range, is rejected with an error; no binary value is built from it.
C14_SubtypeOutsideByteIsError ==
    value.t = "binaryLit" =>
        /\ (Decoded("constructor") /\ ~IsByte(ParseInt10(value.subtype, 64)))
               => IsErr(result["constructor"])
        /\ (Decoded("strict") /\ ~IsByte(ParseInt0(value.subtype)))
               => IsErr(result["strict"])

\* t is the instant m milliseconds after the epoch, in UTC, with its
\* nanoseconds within the second.
IsInstantOfMillis(t, m) ==
    /\ t.t = "Time"
    /\ t.off = 0
    /\ t.nsec \in 0..999999999
    /\ t.nsec % 1000000 = 0
    /\ IntAdd(IntMul(t.sec, 1000), FromInt(t.nsec \div 1000000)) = m

\* C15: new Date(m) and {"$date":{"$numberLong":"m"}} decode to the same
\* instant, m milliseconds after the epoch in UTC, for every 64-bit m,
\* negative ones and the extremes included.
C15_MillisDecodeToInstant ==
    value.t = "millisLit" =>
        /\ \A form \in {"constructor", "strict"} :
               Decoded(form) => IsInstantOfMillis(result[form], value.ms)
        /\ (Decoded("constructor") /\ Decoded("strict"))
               => result["constructor"] = result["strict"]

C15_Witness ==
    /\ value = MillisLit(FromInt(0 - 1))
    /\ Decoded("constructor")
    /\ result["strict"] = Time(FromInt(0 - 1), 999000000, 0)

SyntheticKeys == {f.key : f \in jsonExt.funcs}

\* v is, or holds at some depth, a generic object with a synthetic key.
RECURSIVE HoldsSyntheticKey(_)
HoldsSyntheticKey(v) ==
    /\ v.t = "map"
    /\ \E key \in DOMAIN v.m : key \in SyntheticKeys \/ HoldsSyntheticKey(v.m[key])

\* C19: each of the nine constructors registered at init rewrites to a
\* synthetic key with a keyed hook in the outer registry, and the value
\* Unmarshal stores for a text of constructor calls, which writes no $ key
\* itself, holds no generic object under a synthetic key.
C19_ConstructorsAreDispatched ==
    /\ {f.name : f \in jsonExt.funcs} =
           {F_BinData, F_ISODate, F_newDate, F_Timestamp, F_ObjectId, F_DBRef,
            F_NumberLong, F_NumberInt, F_NumberDecimal}
    /\ \A f \in jsonExt.funcs : HasKeyed(jsonExt, f.key)
    /\ (value.t = "rawLit" /\ "$" \notin Range(value.b) /\ Decoded("strict"))
           => ~HoldsSyntheticKey(result["strict"])

\* The struct types a keyed hook hands to jdec, one for each jdec call of
\* its body.
HookStructs(hook) ==
    CASE hook = "jdecBinary" -> {BinaryStruct}
      [] hook = "jdecTimestamp" -> {TimestampStruct}
      [] hook = "jdecRegEx" -> {RegExStruct}
      [] hook = "jdecDate" -> {DateStruct, DateNumberStruct}
      [] hook = "jdecObjectID" -> {ObjectIDStruct}
      [] hook = "jdecDBRef" -> {DBRefStruct}
      [] hook = "jdecNumberLong" ->
             {NumberStruct(K_numberLong, K_numberLongFunc, 64, q) : q \in BOOLEAN}
      [] hook = "jdecNumberInt" ->
             {NumberStruct(K_numberInt, K_numberIntFunc, 32, q) : q \in BOOLEAN}
      [] hook = "jdecMinKey" -> {TStruct(<<Field("N", K_minKey, TInt(64, FALSE))>>)}
      [] hook = "jdecMaxKey" -> {TStruct(<<Field("N", K_maxKey, TInt(64, FALSE))>>)}
      [] hook = "jdecUndefined" -> {TStruct(<<Field("B", K_undefined, TBool)>>)}
      [] OTHER -> {}

\* The keyed hook Unmarshal hands the whole of a text to.
TopHook(txt) == HookFor(NewDecoder(jsonExt), txt)

\* C20: a keyed hook returns a value only if one of the jdec calls it
\* makes on its body completed without error; when every one of them
\* fails, Unmarshal returns an error and no value, for jdecDate too.
C20_ValueOnlyFromCleanDecode ==
    \A form \in Forms :
        (Decoded(form) /\ ~IsErr(result[form])) =>
            LET h == TopHook(text[form].b)
            IN  h.hook # "none" => \E ty \in HookStructs(h.hook) : ~jdec(h.data, ty).err

\* C17: under every interleaving of concurrent Unmarshal, Marshal and
\* MarshalCanonical calls, the inner jdec calls of the hooks included, no
\* step writes jsonExt, funcExt or jsonExtendedExt: each registry stays as
\* init left it, and the decoder or encoder of every call holds exactly
\* the entries init registered.
C17_RegistriesReadOnly ==
    /\ jsonExt = InitJsonExt
    /\ funcExt = InitFuncExt
    /\ jsonExtendedExt = InitJsonExtendedExt
    /\ \A c \in Callers :
           /\ calls[c].pc \in {"decode", "hook", "inner", "encode", "done"} =>
                  calls[c].ext = Extend(EmptyExt, IF calls[c].op = "Marshal"
                                                  THEN InitJsonExtendedExt ELSE InitJsonExt)
           /\ calls[c].pc = "inner" => calls[c].inner = Extend(EmptyExt, InitFuncExt)

C17_Witness ==
    /\ calls[1].pc = "inner"
    /\ calls[2].pc = "encode"
    /\ calls[2].op = "Marshal"

\* The steps a call has left at most, by its position.
Rank(call) ==
    CASE call.pc = "idle" -> 0
      [] call.pc = "done" -> 1
      [] call.pc = "encode" -> 2
      [] call.pc = "inner" -> 2
      [] call.pc = "hook" -> 3
      [] call.pc = "decode" -> 4
      [] call.pc = "new" -> 5

\* C18: funcExt, the registry of jdec, holds constructor and constant
\* hooks and never a keyed hook, while jsonExt, the registry of Unmarshal,
\* holds all three kinds; so the decoder of jdec hands no body to a keyed
\* hook, a call is never more than one hook deep, a hook is never held
\* back from its inner decode, and every call under way comes closer to
\* its return with each step it takes.
C18_HooksNestOnceAndEnd ==
    /\ [](/\ funcExt.keyed = {}
          /\ funcExt.funcs # {}
          /\ funcExt.consts # {}
          /\ jsonExt.keyed # {}
          /\ jsonExt.funcs # {}
          /\ jsonExt.consts # {}
          /\ \A c \in Callers :
                 /\ calls[c].depth <= 1
                 /\ calls[c].pc = "inner" =>
                        /\ calls[c].inner.keyed = {}
                        /\ HookFor(calls[c].inner, calls[c].data).hook = "none"
                 /\ calls[c].pc = "hook" => ENABLED HookJdec(c))
    /\ [][\A c \in Callers :
              calls[c].pc # "idle" =>
                  calls'[c] = calls[c] \/ Rank(calls'[c]) < Rank(calls[c])]_vars

C18_Witness ==
    /\ calls[1].op = "Unmarshal"
    /\ calls[1].pc = "done"
    /\ calls[1].depth = 1
    /\ calls[1].res = I64(FromNat(5))

====
